---- MODULE Spec2Model ----
(***************************************************************************)
(* Directory-tree generators of directory_tree_generator.py and of the     *)
(* method1..method4 scripts, modelled over a bounded file system.          *)
(*                                                                         *)
(* A file system is a function from paths (sequences of entry names,       *)
(* <<>> being the walked root) to entries.  Every generator is one action  *)
(* that computes the whole result of the call from the file system; the    *)
(* order in which iterdir() lists a directory is chosen by the environment *)
(* at each call.                                                           *)
(***************************************************************************)
EXTENDS Integers, Sequences, FiniteSets, TLC

VARIABLES fs, last

vars == <<fs, last>>

(***************************************************************************)
(* Bounds of the model.                                                    *)
(***************************************************************************)
MaxEntries == 3
MaxPathLen == 3
MaxDepthArg == 1

\* max_depth=None (no limit): a value outside the depths, which are >= 0
None == -1

(***************************************************************************)
(* Entry names.  A name is a string of the model; Chars gives its code     *)
(* points, on which str.lower(), str.startswith('.') and the comparisons   *)
(* of sorted() work.                                                       *)
(***************************************************************************)
Names == {"a", "B", "b", ".c"}

\* The automatic names of the output files ("tree_", "ascii_tree_" or
\* "detailed_", the name of the directory, the timestamp, the extension), TS
\* standing for the timestamp.
OutputFiles ==
    <<"ascii_tree_root_TS.txt", "detailed_root_TS.txt", "tree_root_TS.json",
      "tree_root_TS.txt", "tree_root_TS.xml">>

OutputNames == {OutputFiles[i] : i \in 1..Len(OutputFiles)}

Chars(name) ==
    CASE name = "a" -> <<97>>
      [] name = "B" -> <<66>>
      [] name = "b" -> <<98>>
      [] name = ".c" -> <<46, 99>>
      [] name = "ascii_tree_root_TS.txt" ->
             <<97, 115, 99, 105, 105, 95, 116, 114, 101, 101, 95, 114, 111, 111, 116, 95, 84, 83, 46, 116, 120, 116>>
      [] name = "detailed_root_TS.txt" ->
             <<100, 101, 116, 97, 105, 108, 101, 100, 95, 114, 111, 111, 116, 95, 84, 83, 46, 116, 120, 116>>
      [] name = "tree_root_TS.json" ->
             <<116, 114, 101, 101, 95, 114, 111, 111, 116, 95, 84, 83, 46, 106, 115, 111, 110>>
      [] name = "tree_root_TS.txt" ->
             <<116, 114, 101, 101, 95, 114, 111, 111, 116, 95, 84, 83, 46, 116, 120, 116>>
      [] name = "tree_root_TS.xml" ->
             <<116, 114, 101, 101, 95, 114, 111, 111, 116, 95, 84, 83, 46, 120, 109, 108>>

\* str.lower() on code points: 'A'..'Z' map to 'a'..'z'
LowerChar(c) == IF c >= 65 /\ c <= 90 THEN c + 32 ELSE c

Lower(cs) == [i \in 1..Len(cs) |-> LowerChar(cs[i])]

\* item.name.startswith('.')
StartsWithDot(name) == Len(Chars(name)) > 0 /\ Chars(name)[1] = 46

\* Python's < on str: lexicographic on code points
RECURSIVE StrLess(_, _)
StrLess(x, y) ==
    IF Len(y) = 0 THEN FALSE
    ELSE IF Len(x) = 0 THEN TRUE
    ELSE IF x[1] # y[1] THEN x[1] < y[1]
    ELSE StrLess(Tail(x), Tail(y))

(***************************************************************************)
(* The file system.                                                        *)
(*   kind "dir":    is_dir() is True; listable = the mode grants access:   *)
(*                  iterdir() succeeds (FALSE: iterdir() raises            *)
(*                  PermissionError, and so does stat() of anything below) *)
(*   kind "file":   is_file() is True, stat().st_size = size               *)
(*   kind "broken": dangling symbolic link, or an entry that vanished      *)
(*                  after it was listed: is_dir() and is_file() are False  *)
(*                  and stat() raises FileNotFoundError                    *)
(***************************************************************************)
Sizes == {5, 10}

EntryValues ==
    {[kind |-> "dir", size |-> 0, listable |-> l] : l \in BOOLEAN}
    \cup {[kind |-> "file", size |-> s, listable |-> FALSE] : s \in Sizes}
    \cup {[kind |-> "broken", size |-> 0, listable |-> FALSE]}

\* the entries whose size is the smallest one
OneSize == {e \in EntryValues : \A z \in Sizes : e.size <= z}

RootOnly == (<<>> :> [kind |-> "dir", size |-> 0, listable |-> TRUE])

Exists(f, p) == p \in DOMAIN f

is_dir(f, p) == Exists(f, p) /\ f[p].kind = "dir"

is_file(f, p) == Exists(f, p) /\ f[p].kind = "file"

\* every directory above p grants access
Searchable(f, p) == \A k \in 0..(Len(p) - 1) : f[SubSeq(p, 1, k)].listable

\* item.stat() returns
StatOK(f, p) == Exists(f, p) /\ f[p].kind # "broken" /\ Searchable(f, p)

(***************************************************************************)
(* Path.iterdir(): the names of the entries of directory p, in the order   *)
(* the file system lists them.  The order is not specified; ord, a         *)
(* permutation of Names chosen at each call, gives it.  The caller tests   *)
(* Listable first: on FALSE iterdir() raises PermissionError.  Output      *)
(* files that earlier calls wrote into the root are entries of the root    *)
(* like any other; they are listed after the entries with a name of Names. *)
(***************************************************************************)
Listable(f, p) == f[p].listable

iterdir(f, p, ord) ==
    SelectSeq(ord, LAMBDA n : Append(p, n) \in DOMAIN f)
    \o (IF p = <<>> THEN SelectSeq(OutputFiles, LAMBDA n : <<n>> \in DOMAIN f) ELSE <<>>)

\* [item for item in items if not item.name.startswith('.')]
NotHidden(items) == SelectSeq(items, LAMBDA n : ~StartsWithDot(n))

(***************************************************************************)
(* sorted(items, key=...) / list.sort(key=...): a stable sort.  K maps     *)
(* each item to its key, a sequence of integers compared as Python         *)
(* compares tuples and strings.  x goes before the first element whose key *)
(* is strictly greater, so equal keys keep the order of the input.         *)
(***************************************************************************)
RECURSIVE InsertByKey(_, _, _)
InsertByKey(sorted, x, K) ==
    IF sorted = <<>> THEN <<x>>
    ELSE IF StrLess(K[x], K[Head(sorted)]) THEN <<x>> \o sorted
    ELSE <<Head(sorted)>> \o InsertByKey(Tail(sorted), x, K)

RECURSIVE SortedByKey(_, _)
SortedByKey(items, K) ==
    IF items = <<>> THEN <<>>
    ELSE InsertByKey(SortedByKey(SubSeq(items, 1, Len(items) - 1), K),
                     items[Len(items)], K)

\* sorted([item for item in current_path.iterdir()]): Path objects compare
\* by their parts, case-sensitively; siblings differ in the name only
PathKey(f, p) == [n \in Names \cup OutputNames |-> Chars(n)]

\* as DirsFirstKey with x.name in place of x.name.lower()
DirsFirstKey_CaseSensitive(f, p) ==
    [n \in Names \cup OutputNames |->
        <<IF is_dir(f, Append(p, n)) THEN 0 ELSE 1>> \o Chars(n)]

\* key=lambda x: (not x.is_dir(), x.name.lower())
DirsFirstKey(f, p) ==
    [n \in Names \cup OutputNames |->
        <<IF is_dir(f, Append(p, n)) THEN 0 ELSE 1>> \o Lower(Chars(n))]

(***************************************************************************)
(* Lines of the text formats.  A line f"{prefix}{connector}..." is kept as *)
(* a record: prefix is the sequence of four-character extensions, path is  *)
(* the entry (item) the line was appended for.  A generator that reaches   *)
(* its open(output_file, 'w') returns the field file: the name of the file *)
(* it wrote, the automatic one (output_file=None), TS standing for the     *)
(* timestamp; the text written is the lines joined.                        *)
(***************************************************************************)
\* The four connector strings, in ASCII: Blank is four spaces, Bar the
\* vertical bar and three spaces, Tee the branch and Ell the corner glyph.
Blank == "    "
Bar == "|   "
Tee == "|-- "
Ell == "+-- "

\* tree_lines.append(f"{prefix}<corner> [Permission Denied]")
DeniedLine(p, prefix) ==
    [tag |-> "denied", path |-> p, prefix |-> prefix, connector |-> Ell]

(***************************************************************************)
(* method1/directory_tree.py: generate_directory_tree.                     *)
(* c is the closure of the nested function: [f, ord, max_depth].  A walk   *)
(* yields the lines appended to tree_lines and calls, the paths on which   *)
(* walk_directory was called, in call order.                               *)
(***************************************************************************)
Called(current_path) == [lines |-> <<>>, calls |-> <<current_path>>]

After(r1, r2) == [lines |-> r1.lines \o r2.lines, calls |-> r1.calls \o r2.calls]

RECURSIVE walk_directory(_, _, _, _), walk_directory_loop(_, _, _, _, _, _)
\* as walk_directory with an except clause that appends nothing
walk_directory_SilentDenied(c, current_path, prefix, depth) ==
    IF c.max_depth # None /\ depth > c.max_depth THEN Called(current_path)
    ELSE IF ~Listable(c.f, current_path) THEN Called(current_path)
    ELSE After(Called(current_path),
               walk_directory_loop(c, current_path, prefix, depth,
                   SortedByKey(iterdir(c.f, current_path, c.ord),
                               PathKey(c.f, current_path)), 1))

walk_directory(c, current_path, prefix, depth) ==
    IF c.max_depth # None /\ depth > c.max_depth THEN Called(current_path)
    ELSE IF ~Listable(c.f, current_path)
    THEN [lines |-> <<DeniedLine(current_path, prefix)>>, calls |-> <<current_path>>]
    ELSE After(Called(current_path),
               walk_directory_loop(c, current_path, prefix, depth,
                   SortedByKey(iterdir(c.f, current_path, c.ord),
                               PathKey(c.f, current_path)), 1))

\* as walk_directory_loop with the bar extension also below the last sibling
walk_directory_loop_BarAlways(c, current_path, prefix, depth, items, i) ==
    IF i > Len(items) THEN [lines |-> <<>>, calls |-> <<>>]
    ELSE LET item == Append(current_path, items[i])
             is_lastx == (i = Len(items))
             connector == IF is_lastx THEN Ell ELSE Tee
             line == [tag |-> "entry", path |-> item, prefix |-> prefix,
                      connector |-> connector, name |-> items[i]]
         IN  After([lines |-> <<line>>, calls |-> <<>>],
             After(IF is_dir(c.f, item)
                   THEN walk_directory(c, item, Append(prefix, Bar), depth + 1)
                   ELSE [lines |-> <<>>, calls |-> <<>>],
                   walk_directory_loop(c, current_path, prefix, depth, items, i + 1)))

walk_directory_loop(c, current_path, prefix, depth, items, i) ==
    IF i > Len(items) THEN [lines |-> <<>>, calls |-> <<>>]
    ELSE LET item == Append(current_path, items[i])
             is_lastx == (i = Len(items))
             connector == IF is_lastx THEN Ell ELSE Tee
             line == [tag |-> "entry", path |-> item, prefix |-> prefix,
                      connector |-> connector, name |-> items[i]]
             extension == IF is_lastx THEN Blank ELSE Bar
         IN  After([lines |-> <<line>>, calls |-> <<>>],
             After(IF is_dir(c.f, item)
                   THEN walk_directory(c, item, Append(prefix, extension), depth + 1)
                   ELSE [lines |-> <<>>, calls |-> <<>>],
                   walk_directory_loop(c, current_path, prefix, depth, items, i + 1)))

method1_generate_directory_tree(f, ord, max_depth) ==
    IF ~Exists(f, <<>>) THEN [status |-> "FileNotFoundError"]
    ELSE LET w == walk_directory([f |-> f, ord |-> ord, max_depth |-> max_depth],
                                 <<>>, <<>>, 0)
         IN  [status |-> "ok", lines |-> <<[tag |-> "root"]>> \o w.lines,
              calls |-> w.calls]

(***************************************************************************)
(* directory_tree_generator.py: generate_directory_tree.  The nested       *)
(* walk_directory (lines 36-53) is the same function as method1's, but the *)
(* body of generate_directory_tree never calls it: tree_lines holds the    *)
(* three header lines and the closing rule only.                           *)
(***************************************************************************)
\* start_path does not exist
NoRoot == <<>>

generate_directory_tree(f, ord, max_depth) ==
    IF ~Exists(f, <<>>) THEN [status |-> "FileNotFoundError"]
    ELSE [status |-> "ok",
          lines |-> <<[tag |-> "header", text |-> "Directory Tree for"],
                      [tag |-> "header", text |-> "Generated"],
                      [tag |-> "rule"],
                      [tag |-> "rule"]>>,
          file |-> [name |-> "tree_root_TS.txt"]]

(***************************************************************************)
(* Result of a counting walk: the lines appended, the increments of the    *)
(* nonlocal counters, listed, the directories on which iterdir() was       *)
(* called, in call order, and calls, the paths on which the recursive      *)
(* function was called, in call order.                                     *)
(***************************************************************************)
NoWalk ==
    [lines |-> <<>>, dirs |-> 0, files |-> 0, size |-> 0, listed |-> <<>>, calls |-> <<>>]

Then(r1, r2) ==
    [lines |-> r1.lines \o r2.lines, dirs |-> r1.dirs + r2.dirs,
     files |-> r1.files + r2.files, size |-> r1.size + r2.size,
     listed |-> r1.listed \o r2.listed, calls |-> r1.calls \o r2.calls]

\* as DirCounts without the filter of lines 146-147
DirCounts_NoFilter(c, item) ==
    IF ~Listable(c.f, item) THEN [text |-> "?"]
    ELSE LET dir_items == iterdir(c.f, item, c.ord)
         IN  [files |-> Len(SelectSeq(dir_items, LAMBDA n : is_file(c.f, Append(item, n)))),
              dirs |-> Len(SelectSeq(dir_items, LAMBDA n : is_dir(c.f, Append(item, n))))]

\* the "Count contents of this directory" block: list(item.iterdir()), the
\* hidden filter, and the two sums sum(1 for di in dir_items if ...); the
\* text "?" when the listing raises
DirCounts(c, item) ==
    IF ~Listable(c.f, item) THEN [text |-> "?"]
    ELSE LET all_items == iterdir(c.f, item, c.ord)
             dir_items == IF ~c.show_hidden THEN NotHidden(all_items) ELSE all_items
         IN  [files |-> Len(SelectSeq(dir_items, LAMBDA n : is_file(c.f, Append(item, n)))),
              dirs |-> Len(SelectSeq(dir_items, LAMBDA n : is_dir(c.f, Append(item, n))))]

\* the "Get file size" block: item.stat().st_size, or the except branch
FileInfo(c, item) ==
    IF StatOK(c.f, item) THEN [size |-> c.f[item].size] ELSE [text |-> "access denied"]

\* as SizeAdded with total_size += 1: the files are counted, not their bytes
SizeAdded_CountsFiles(c, item) == IF StatOK(c.f, item) THEN 1 ELSE 0

\* total_size += size, skipped when stat() raised
SizeAdded(c, item) == IF StatOK(c.f, item) THEN c.f[item].size ELSE 0

(***************************************************************************)
(* directory_tree_generator.py: generate_ascii_tree.                       *)
(* c is the closure of build_tree: [f, ord, show_hidden, max_depth].       *)
(***************************************************************************)
RECURSIVE build_tree(_, _, _, _, _), build_tree_loop(_, _, _, _, _, _, _)
\* as build_tree without the test of lines 114-115
build_tree_NoLimit(c, current_path, prefix, is_last, depth) ==
    IF ~Listable(c.f, current_path)
    THEN [NoWalk EXCEPT !.lines = <<DeniedLine(current_path, prefix)>>,
                        !.listed = <<current_path>>, !.calls = <<current_path>>]
    ELSE LET all_items == iterdir(c.f, current_path, c.ord)
             items == IF ~c.show_hidden THEN NotHidden(all_items) ELSE all_items
         IN  Then([NoWalk EXCEPT !.listed = <<current_path>>, !.calls = <<current_path>>],
                  build_tree_loop(c, current_path, prefix, is_last, depth,
                      SortedByKey(items, DirsFirstKey(c.f, current_path)), 1))

build_tree(c, current_path, prefix, is_last, depth) ==
    IF c.max_depth # None /\ depth > c.max_depth
    THEN [NoWalk EXCEPT !.calls = <<current_path>>]
    ELSE IF ~Listable(c.f, current_path)
    THEN [NoWalk EXCEPT !.lines = <<DeniedLine(current_path, prefix)>>,
                        !.listed = <<current_path>>, !.calls = <<current_path>>]
    ELSE LET all_items == iterdir(c.f, current_path, c.ord)
             items == IF ~c.show_hidden THEN NotHidden(all_items) ELSE all_items
         IN  Then([NoWalk EXCEPT !.listed = <<current_path>>, !.calls = <<current_path>>],
                  build_tree_loop(c, current_path, prefix, is_last, depth,
                      SortedByKey(items, DirsFirstKey(c.f, current_path)), 1))

\* as build_tree_loop with a second walk of each sub-directory
build_tree_loop_WalksTwice(c, current_path, prefix, is_last, depth, items, i) ==
    IF i > Len(items) THEN NoWalk
    ELSE LET item == Append(current_path, items[i])
             is_last_item == (i = Len(items))
             connector == IF i = 1
                          THEN (IF is_last THEN Ell ELSE Tee)
                          ELSE (IF is_last THEN Blank ELSE Bar)
             next_prefix == Append(prefix, IF is_last THEN Blank ELSE Bar)
             this ==
                 IF is_dir(c.f, item)
                 THEN Then([lines |-> <<[tag |-> "D", path |-> item, prefix |-> prefix,
                                         connector |-> connector, name |-> items[i],
                                         info |-> DirCounts(c, item)]>>,
                            dirs |-> 1, files |-> 0, size |-> 0, listed |-> <<item>>, calls |-> <<>>],
                           Then(build_tree(c, item, next_prefix, is_last_item, depth + 1),
                                build_tree(c, item, next_prefix, is_last_item, depth + 1)))
                 ELSE [lines |-> <<[tag |-> "F", path |-> item, prefix |-> prefix,
                                    connector |-> connector, name |-> items[i],
                                    info |-> FileInfo(c, item)]>>,
                       dirs |-> 0, files |-> 1,
                       size |-> SizeAdded(c, item),
                       listed |-> <<>>, calls |-> <<>>]
         IN  Then(this, build_tree_loop(c, current_path, prefix, is_last, depth, items, i + 1))

build_tree_loop(c, current_path, prefix, is_last, depth, items, i) ==
    IF i > Len(items) THEN NoWalk
    ELSE LET item == Append(current_path, items[i])
             is_last_item == (i = Len(items))
             connector == IF i = 1
                          THEN (IF is_last THEN Ell ELSE Tee)
                          ELSE (IF is_last THEN Blank ELSE Bar)
             next_prefix == Append(prefix, IF is_last THEN Blank ELSE Bar)
             this ==
                 IF is_dir(c.f, item)
                 THEN Then([lines |-> <<[tag |-> "D", path |-> item, prefix |-> prefix,
                                         connector |-> connector, name |-> items[i],
                                         info |-> DirCounts(c, item)]>>,
                            dirs |-> 1, files |-> 0, size |-> 0, listed |-> <<item>>, calls |-> <<>>],
                           build_tree(c, item, next_prefix, is_last_item, depth + 1))
                 ELSE [lines |-> <<[tag |-> "F", path |-> item, prefix |-> prefix,
                                    connector |-> connector, name |-> items[i],
                                    info |-> FileInfo(c, item)]>>,
                       dirs |-> 0, files |-> 1,
                       size |-> SizeAdded(c, item),
                       listed |-> <<>>, calls |-> <<>>]
         IN  Then(this, build_tree_loop(c, current_path, prefix, is_last, depth, items, i + 1))

\* as generate_ascii_tree with the root counted among the directories
generate_ascii_tree_CountsRoot(f, ord, show_hidden, max_depth) ==
    IF ~Exists(f, <<>>) THEN [status |-> "FileNotFoundError"]
    ELSE LET w == build_tree([f |-> f, ord |-> ord, show_hidden |-> show_hidden,
                              max_depth |-> max_depth], <<>>, <<>>, TRUE, 0)
         IN  [status |-> "ok", lines |-> w.lines, total_dirs |-> w.dirs + 1,
              total_files |-> w.files, total_size |-> w.size, listed |-> w.listed,
              calls |-> w.calls, file |-> [name |-> "ascii_tree_root_TS.txt"]]

generate_ascii_tree(f, ord, show_hidden, max_depth) ==
    IF ~Exists(f, <<>>) THEN [status |-> "FileNotFoundError"]
    ELSE LET w == build_tree([f |-> f, ord |-> ord, show_hidden |-> show_hidden,
                              max_depth |-> max_depth], <<>>, <<>>, TRUE, 0)
         IN  [status |-> "ok", lines |-> w.lines, total_dirs |-> w.dirs,
              total_files |-> w.files, total_size |-> w.size, listed |-> w.listed,
              calls |-> w.calls, file |-> [name |-> "ascii_tree_root_TS.txt"]]

(***************************************************************************)
(* directory_tree_generator.py: generate_detailed_tree.                    *)
(* c is the closure of process_directory: [f, ord, show_hidden, max_depth].*)
(* Tags "D" and "F" stand for the folder and the page marker.  There is no *)
(* exists() test: a missing root makes iterdir() raise FileNotFoundError,  *)
(* which the except PermissionError clause does not catch.                 *)
(***************************************************************************)
\* the size block of lines 590-602: item.stat().st_size, or the empty
\* size_str of the except branch
DetailedFileInfo(c, item) ==
    IF StatOK(c.f, item) THEN [size |-> c.f[item].size] ELSE [text |-> ""]

RECURSIVE process_directory(_, _, _, _, _), process_directory_loop(_, _, _, _, _, _, _)
\* as process_directory with the test of lines 551-552 made after the listing
process_directory_LateLimit(c, current_path, prefix, is_last, current_depth) ==
    IF ~Listable(c.f, current_path)
    THEN (IF c.max_depth # None /\ current_depth > c.max_depth
          THEN [NoWalk EXCEPT !.calls = <<current_path>>]
          ELSE [NoWalk EXCEPT !.lines = <<DeniedLine(current_path, prefix)>>,
                              !.listed = <<current_path>>, !.calls = <<current_path>>])
    ELSE IF c.max_depth # None /\ current_depth > c.max_depth
    THEN [NoWalk EXCEPT !.listed = <<current_path>>, !.calls = <<current_path>>]
    ELSE LET all_items == iterdir(c.f, current_path, c.ord)
             items == IF ~c.show_hidden THEN NotHidden(all_items) ELSE all_items
         IN  Then([NoWalk EXCEPT !.listed = <<current_path>>, !.calls = <<current_path>>],
                  process_directory_loop(c, current_path, prefix, is_last, current_depth,
                      SortedByKey(items, DirsFirstKey(c.f, current_path)), 1))

process_directory(c, current_path, prefix, is_last, current_depth) ==
    IF c.max_depth # None /\ current_depth > c.max_depth
    THEN [NoWalk EXCEPT !.calls = <<current_path>>]
    ELSE IF ~Listable(c.f, current_path)
    THEN [NoWalk EXCEPT !.lines = <<DeniedLine(current_path, prefix)>>,
                        !.listed = <<current_path>>, !.calls = <<current_path>>]
    ELSE LET all_items == iterdir(c.f, current_path, c.ord)
             items == IF ~c.show_hidden THEN NotHidden(all_items) ELSE all_items
         IN  Then([NoWalk EXCEPT !.listed = <<current_path>>, !.calls = <<current_path>>],
                  process_directory_loop(c, current_path, prefix, is_last, current_depth,
                      SortedByKey(items, DirsFirstKey(c.f, current_path)), 1))

process_directory_loop(c, current_path, prefix, is_last, current_depth, items, i) ==
    IF i > Len(items) THEN NoWalk
    ELSE LET item == Append(current_path, items[i])
             is_last_item == (i = Len(items))
             connector == IF i = 1
                          THEN (IF is_last THEN Ell ELSE Tee)
                          ELSE (IF is_last THEN Blank ELSE Bar)
             next_prefix == Append(prefix, IF is_last THEN Blank ELSE Bar)
             this ==
                 IF is_dir(c.f, item)
                 THEN Then([lines |-> <<[tag |-> "D", path |-> item, prefix |-> prefix,
                                         connector |-> connector, name |-> items[i],
                                         info |-> DirCounts(c, item)]>>,
                            dirs |-> 1, files |-> 0, size |-> 0, listed |-> <<item>>, calls |-> <<>>],
                           process_directory(c, item, next_prefix, is_last_item,
                                             current_depth + 1))
                 ELSE [lines |-> <<[tag |-> "F", path |-> item, prefix |-> prefix,
                                    connector |-> connector, name |-> items[i],
                                    info |-> DetailedFileInfo(c, item)]>>,
                       dirs |-> 0, files |-> 1,
                       size |-> SizeAdded(c, item),
                       listed |-> <<>>, calls |-> <<>>]
         IN  Then(this, process_directory_loop(c, current_path, prefix, is_last,
                                               current_depth, items, i + 1))

generate_detailed_tree(f, ord, show_hidden, max_depth) ==
    IF ~Exists(f, <<>>) THEN [status |-> "FileNotFoundError"]
    ELSE LET w == process_directory([f |-> f, ord |-> ord, show_hidden |-> show_hidden,
                                     max_depth |-> max_depth], <<>>, <<>>, TRUE, 0)
         IN  [status |-> "ok", lines |-> w.lines, dir_count |-> w.dirs,
              file_count |-> w.files, total_size |-> w.size, listed |-> w.listed,
              calls |-> w.calls, file |-> [name |-> "detailed_root_TS.txt"]]

(***************************************************************************)
(* method3/directory_tree.py: generate_detailed_tree.  No depth limit and  *)
(* no total size; c is [f, ord, show_hidden].                              *)
(***************************************************************************)
\* the "Get file size" block of method3: the except branch sets size_str = ""
Method3FileInfo(c, item) ==
    IF StatOK(c.f, item) THEN [size |-> c.f[item].size] ELSE [text |-> ""]

RECURSIVE method3_process_directory(_, _, _, _), method3_process_directory_loop(_, _, _, _, _, _)
method3_process_directory(c, current_path, prefix, is_last) ==
    IF ~Listable(c.f, current_path)
    THEN [NoWalk EXCEPT !.lines = <<DeniedLine(current_path, prefix)>>,
                        !.listed = <<current_path>>, !.calls = <<current_path>>]
    ELSE LET all_items == iterdir(c.f, current_path, c.ord)
             items == IF ~c.show_hidden THEN NotHidden(all_items) ELSE all_items
         IN  Then([NoWalk EXCEPT !.listed = <<current_path>>, !.calls = <<current_path>>],
                  method3_process_directory_loop(c, current_path, prefix, is_last,
                      SortedByKey(items, DirsFirstKey(c.f, current_path)), 1))

method3_process_directory_loop(c, current_path, prefix, is_last, items, i) ==
    IF i > Len(items) THEN NoWalk
    ELSE LET item == Append(current_path, items[i])
             is_last_item == (i = Len(items))
             connector == IF i = 1
                          THEN (IF is_last THEN Ell ELSE Tee)
                          ELSE (IF is_last THEN Blank ELSE Bar)
             next_prefix == Append(prefix, IF is_last THEN Blank ELSE Bar)
             this ==
                 IF is_dir(c.f, item)
                 THEN Then([lines |-> <<[tag |-> "D", path |-> item, prefix |-> prefix,
                                         connector |-> connector, name |-> items[i],
                                         info |-> DirCounts(c, item)]>>,
                            dirs |-> 1, files |-> 0, size |-> 0, listed |-> <<item>>, calls |-> <<>>],
                           method3_process_directory(c, item, next_prefix, is_last_item))
                 ELSE [lines |-> <<[tag |-> "F", path |-> item, prefix |-> prefix,
                                    connector |-> connector, name |-> items[i],
                                    info |-> Method3FileInfo(c, item)]>>,
                       dirs |-> 0, files |-> 1, size |-> 0, listed |-> <<>>,
                       calls |-> <<>>]
         IN  Then(this, method3_process_directory_loop(c, current_path, prefix, is_last,
                                                       items, i + 1))

method3_generate_detailed_tree(f, ord, show_hidden) ==
    IF ~Exists(f, <<>>) THEN [status |-> "FileNotFoundError"]
    ELSE LET w == method3_process_directory([f |-> f, ord |-> ord,
                                             show_hidden |-> show_hidden],
                                            <<>>, <<>>, TRUE)
         IN  [status |-> "ok", lines |-> w.lines, dir_count |-> w.dirs,
              file_count |-> w.files, listed |-> w.listed, calls |-> w.calls]

(***************************************************************************)
(* directory_tree_generator.py: directory_to_dict.  A node is a record     *)
(* whose fields are the keys of the dict.                                  *)
(***************************************************************************)
\* path.name; the root's own name is not one of Names
PathName(p) == IF p = <<>> THEN "root" ELSE p[Len(p)]

\* d['size'] += child_dict['size'] (line 687) and d['size'] += stat.st_size
\* (line 699); nothing is added for a file whose stat() raised
\* as ChildSize without line 687: the size of a sub-directory is not added
ChildSize_FilesOnly(child_dict) ==
    IF "size" \in DOMAIN child_dict /\ child_dict.type = "file" THEN child_dict.size ELSE 0

ChildSize(child_dict) == IF "size" \in DOMAIN child_dict THEN child_dict.size ELSE 0

RECURSIVE directory_to_dict(_, _, _, _, _), directory_to_dict_loop(_, _, _, _, _, _, _)
\* as directory_to_dict with a cut-off directory sized from the files below it
directory_to_dict_SizedCut(f, ord, path, max_depth, current_depth) ==
    LET d == [name |-> PathName(path), path |-> path, type |-> "directory",
              size |-> 0, modified |-> IF Exists(f, path) THEN 1 ELSE 0]
        full == directory_to_dict(f, ord, path, None, current_depth)
    IN  IF max_depth # None /\ current_depth >= max_depth
        THEN [d EXCEPT !.size = full.size] @@ [children |-> <<>>]
        ELSE IF ~(Exists(f, path) /\ Listable(f, path))
        THEN d @@ [children |-> <<[error |-> "Permission denied"]>>]
        ELSE LET r == directory_to_dict_loop(f, ord, path, max_depth, current_depth,
                          SortedByKey(iterdir(f, path, ord), DirsFirstKey(f, path)), 1)
             IN  [d EXCEPT !.size = r.size] @@ [children |-> r.children]

directory_to_dict(f, ord, path, max_depth, current_depth) ==
    LET d == [name |-> PathName(path), path |-> path, type |-> "directory",
              size |-> 0, modified |-> IF Exists(f, path) THEN 1 ELSE 0]
    IN  IF max_depth # None /\ current_depth >= max_depth
        THEN d @@ [children |-> <<>>]
        ELSE IF ~(Exists(f, path) /\ Listable(f, path))
        THEN d @@ [children |-> <<[error |-> "Permission denied"]>>]
        ELSE LET r == directory_to_dict_loop(f, ord, path, max_depth, current_depth,
                          SortedByKey(iterdir(f, path, ord), DirsFirstKey(f, path)), 1)
             IN  [d EXCEPT !.size = r.size] @@ [children |-> r.children]

directory_to_dict_loop(f, ord, path, max_depth, current_depth, items, i) ==
    IF i > Len(items) THEN [children |-> <<>>, size |-> 0]
    ELSE LET item == Append(path, items[i])
             child_dict ==
                 IF is_dir(f, item)
                 THEN directory_to_dict(f, ord, item, max_depth, current_depth + 1)
                 ELSE IF StatOK(f, item)
                 THEN [name |-> items[i], path |-> item, type |-> "file",
                       size |-> f[item].size, modified |-> 1]
                 ELSE [name |-> items[i], type |-> "file", error |-> "Permission denied"]
             rest == directory_to_dict_loop(f, ord, path, max_depth, current_depth,
                                            items, i + 1)
         IN  [children |-> <<child_dict>> \o rest.children, size |-> ChildSize(child_dict) + rest.size]

(***************************************************************************)
(* json.dump(tree_dict, f, indent=2, default=str) and json.load.  The text *)
(* of the file is kept as its sequence of tokens: [p |-> c] a punctuation  *)
(* mark, [s |-> text] a string, [n |-> number] a number, [null |-> TRUE].  *)
(* A dict is written key by key in insertion order, which for every dict   *)
(* that the walkers build is a sub-order of KeyOrder.                      *)
(***************************************************************************)
KeyOrder ==
    <<"name", "path", "type", "size", "modified", "children", "error",
      "metadata", "generated", "source_path", "max_depth">>

\* str(path): the resolved start path followed by the names
RECURSIVE PathStr(_)
PathStr(p) ==
    IF p = <<>> THEN "/root"
    ELSE PathStr(SubSeq(p, 1, Len(p) - 1)) \o "/" \o p[Len(p)]

RECURSIVE json_dump(_), json_dump_value(_, _), json_dump_list(_, _), json_dump_members(_, _)
\* as json_dump_list with the elements written last to first
json_dump_list_Reversed(list, i) ==
    IF i > Len(list) THEN <<>>
    ELSE (LET x == list[Len(list) + 1 - i]
          IN  IF DOMAIN x = {"text"} THEN <<[s |-> x.text]>> ELSE json_dump(x))
         \o (IF i < Len(list) THEN <<[p |-> ","]>> ELSE <<>>)
         \o json_dump_list(list, i + 1)

\* a list, element by element; an element that is a str is written as a string
json_dump_list(list, i) ==
    IF i > Len(list) THEN <<>>
    ELSE (IF DOMAIN list[i] = {"text"} THEN <<[s |-> list[i].text]>> ELSE json_dump(list[i]))
         \o (IF i < Len(list) THEN <<[p |-> ","]>> ELSE <<>>)
         \o json_dump_list(list, i + 1)

json_dump_value(key, v) ==
    CASE key = "children" -> <<[p |-> "["]>> \o json_dump_list(v, 1) \o <<[p |-> "]"]>>
      [] key = "metadata" -> json_dump(v)
      [] key \in {"path", "source_path"} -> <<[s |-> PathStr(v)]>>
      [] key \in {"size", "modified"} -> <<[n |-> v]>>
      [] key = "max_depth" -> IF v = None THEN <<[null |-> TRUE]>> ELSE <<[n |-> v]>>
      [] OTHER -> <<[s |-> v]>>

json_dump_members(d, keys) ==
    IF keys = <<>> THEN <<>>
    ELSE <<[s |-> Head(keys)], [p |-> ":"]>> \o json_dump_value(Head(keys), d[Head(keys)])
         \o (IF Len(keys) > 1 THEN <<[p |-> ","]>> ELSE <<>>)
         \o json_dump_members(d, Tail(keys))

json_dump(d) ==
    <<[p |-> "{"]>>
    \o json_dump_members(d, SelectSeq(KeyOrder, LAMBDA k : k \in DOMAIN d))
    \o <<[p |-> "}"]>>

\* json.load: t[i] is the first token of a value; the result is the value
\* and the index of the token after it.  A str in a list comes back as a
\* str, for which the record [text |-> ...] stands.
RECURSIVE json_load_value(_, _), json_load_members(_, _), json_load_elements(_, _)
json_load_value(t, i) ==
    IF "p" \in DOMAIN t[i]
    THEN (IF t[i].p = "{" THEN json_load_members(t, i + 1) ELSE json_load_elements(t, i + 1))
    ELSE IF "s" \in DOMAIN t[i] THEN [v |-> t[i].s, next |-> i + 1]
    ELSE IF "n" \in DOMAIN t[i] THEN [v |-> t[i].n, next |-> i + 1]
    ELSE [v |-> None, next |-> i + 1]

json_load_members(t, i) ==
    IF "p" \in DOMAIN t[i] /\ t[i].p = "}" THEN [v |-> <<>>, next |-> i + 1]
    ELSE LET key == t[i].s
             val == json_load_value(t, i + 2)
             sep == t[val.next]
             rest == json_load_members(t, IF sep.p = "," THEN val.next + 1 ELSE val.next)
         IN  [v |-> (key :> val.v) @@ rest.v, next |-> rest.next]

json_load_elements(t, i) ==
    IF "p" \in DOMAIN t[i] /\ t[i].p = "]" THEN [v |-> <<>>, next |-> i + 1]
    ELSE LET val == IF "s" \in DOMAIN t[i]
                    THEN [v |-> [text |-> t[i].s], next |-> i + 1]
                    ELSE json_load_value(t, i)
             sep == t[val.next]
             rest == json_load_elements(t, IF sep.p = "," THEN val.next + 1 ELSE val.next)
         IN  [v |-> <<val.v>> \o rest.v, next |-> rest.next]

json_load(t) == json_load_value(t, 1).v

(***************************************************************************)
(* directory_tree_generator.py: save_tree_json.  directory_to_dict has no  *)
(* exists() test and catches the OSError of the listing of a missing root, *)
(* so the file is written for every start_path.                            *)
(* tree is the dict in memory when json.dump is called, before the         *)
(* metadata is added.                                                      *)
(***************************************************************************)
save_tree_json(f, ord, max_depth) ==
    LET tree_dict == directory_to_dict(f, ord, <<>>, max_depth, 0)
        metadata == [generated |-> "now", source_path |-> <<>>, max_depth |-> max_depth]
    IN  [status |-> "ok", tree |-> tree_dict,
         file |-> [name |-> "tree_root_TS.json",
                   content |-> json_dump(tree_dict @@ [metadata |-> metadata])]]

(***************************************************************************)
(* directory_tree_generator.py: save_tree_xml.  An element is              *)
(* [tag, attrs, children]; element.set(key, str(value)) makes every        *)
(* attribute a string.                                                     *)
(***************************************************************************)
\* str(value) of element.set
AttrText(key, v) ==
    IF key \in {"size", "modified"} THEN ToString(v)
    ELSE IF key = "path" THEN PathStr(v)
    ELSE v

RECURSIVE dict_to_xml(_)
dict_to_xml(data) ==
    [attrs |-> [k \in DOMAIN data \ {"type", "children"} |-> AttrText(k, data[k])],
     children |->
        IF "children" \in DOMAIN data
        THEN [i \in 1..Len(data.children) |->
                 LET child == data.children[i]
                     child_type == IF "type" \in DOMAIN child THEN child.type ELSE "item"
                 IN  [tag |-> child_type] @@ dict_to_xml(child)]
        ELSE <<>>]

save_tree_xml(f, ord, max_depth) ==
    LET tree_dict == directory_to_dict(f, ord, <<>>, max_depth, 0)
        x == dict_to_xml(tree_dict)
        root == [tag |-> "directory_tree",
                 attrs |-> x.attrs @@
                           [generated |-> "now", path |-> PathStr(<<>>),
                            max_depth |-> IF max_depth # None /\ max_depth # 0
                                          THEN ToString(max_depth) ELSE "unlimited"],
                 children |-> x.children]
    IN  [status |-> "ok", tree |-> tree_dict,
         file |-> [name |-> "tree_root_TS.xml", content |-> root]]

(***************************************************************************)
(* method2/directory_tree.py: create_rich_directory_tree.  The nodes added *)
(* to the rich Tree are kept in document order.  There is no hidden filter *)
(* and item.stat() is guarded by the except PermissionError clause of the  *)
(* directory only: the FileNotFoundError of a dangling link leaves every   *)
(* frame of build_tree and the function itself (raised = TRUE).            *)
(* c is the closure of build_tree: [f, ord, max_depth].                    *)
(***************************************************************************)
RECURSIVE method2_build_tree(_, _, _), method2_build_tree_loop(_, _, _, _, _)
method2_build_tree(c, current_path, current_depth) ==
    IF c.max_depth # None /\ current_depth >= c.max_depth
    THEN [raised |-> FALSE, nodes |-> <<>>]
    ELSE IF ~Listable(c.f, current_path)
    THEN [raised |-> FALSE, nodes |-> <<[tag |-> "denied", path |-> current_path]>>]
    ELSE method2_build_tree_loop(c, current_path, current_depth,
            SortedByKey(iterdir(c.f, current_path, c.ord), DirsFirstKey(c.f, current_path)), 1)

method2_build_tree_loop(c, current_path, current_depth, items, i) ==
    IF i > Len(items) THEN [raised |-> FALSE, nodes |-> <<>>]
    ELSE LET item == Append(current_path, items[i])
             rest == method2_build_tree_loop(c, current_path, current_depth, items, i + 1)
         IN  IF is_dir(c.f, item)
             THEN LET sub == method2_build_tree(c, item, current_depth + 1)
                  IN  IF sub.raised THEN [raised |-> TRUE, nodes |-> <<>>]
                      ELSE [rest EXCEPT !.nodes =
                               <<[tag |-> "D", path |-> item, name |-> items[i]]>>
                               \o sub.nodes \o @]
             ELSE IF StatOK(c.f, item)
             THEN [rest EXCEPT !.nodes =
                      <<[tag |-> "F", path |-> item, name |-> items[i],
                         info |-> [size |-> c.f[item].size]]>> \o @]
             ELSE [raised |-> TRUE, nodes |-> <<>>]

method2_create_rich_directory_tree(f, ord, max_depth) ==
    IF ~Exists(f, <<>>) THEN [status |-> "FileNotFoundError"]
    ELSE LET w == method2_build_tree([f |-> f, ord |-> ord, max_depth |-> max_depth],
                                     <<>>, 0)
         IN  IF w.raised THEN [status |-> "FileNotFoundError"]
             ELSE [status |-> "ok", lines |-> w.nodes]

(***************************************************************************)
(* method4/directory_tree.py: directory_to_dict.  No depth limit; a node   *)
(* has name and type only.  item.stat() is called inside the try block of  *)
(* the directory being listed: when it raises, the except clause replaces  *)
(* the whole children list by the one-element list ['Permission Denied'].  *)
(* That element is a str; the record [text |-> ...] stands for it.         *)
(***************************************************************************)
RECURSIVE method4_directory_to_dict(_, _, _), method4_directory_to_dict_loop(_, _, _, _, _)
method4_directory_to_dict(f, ord, path) ==
    LET d == [name |-> PathName(path), type |-> "directory"]
        denied == <<[text |-> "Permission Denied"]>>
    IN  IF ~(Exists(f, path) /\ Listable(f, path))
        THEN d @@ [children |-> denied]
        ELSE LET items == SortedByKey(iterdir(f, path, ord), DirsFirstKey(f, path))
                 r == method4_directory_to_dict_loop(f, ord, path, items, 1)
             IN  IF r.raised THEN d @@ [children |-> denied]
                 ELSE d @@ [children |-> r.children]

method4_directory_to_dict_loop(f, ord, path, items, i) ==
    IF i > Len(items) THEN [raised |-> FALSE, children |-> <<>>]
    ELSE LET item == Append(path, items[i])
             rest == method4_directory_to_dict_loop(f, ord, path, items, i + 1)
         IN  IF is_dir(f, item)
             THEN [rest EXCEPT !.children = <<method4_directory_to_dict(f, ord, item)>> \o @]
             ELSE IF StatOK(f, item)
             THEN [rest EXCEPT !.children =
                      <<[name |-> items[i], type |-> "file",
                         size |-> f[item].size, modified |-> 1]>> \o @]
             ELSE [raised |-> TRUE, children |-> <<>>]

\* method4/directory_tree.py: save_tree_json(start_path, output_file)
method4_save_tree_json(f, ord) ==
    LET tree_dict == method4_directory_to_dict(f, ord, <<>>)
    IN  [status |-> "ok", tree |-> tree_dict,
         file |-> [name |-> "directory_tree.json", content |-> json_dump(tree_dict)]]

(***************************************************************************)
(* method4/directory_tree.py: save_tree_xml.  dict_to_xml sets every key   *)
(* other than children as an attribute, type included, and tags a child    *)
(* 'directory' or 'file' by child.get('type').  A child that is a str (the *)
(* 'Permission Denied' element) has no get(): the call raises              *)
(* AttributeError, which nothing catches (raised = TRUE), before the file  *)
(* is opened.                                                              *)
(***************************************************************************)
RECURSIVE method4_dict_to_xml(_), method4_dict_to_xml_children(_, _)
method4_dict_to_xml(data) ==
    LET sub == IF "children" \in DOMAIN data
               THEN method4_dict_to_xml_children(data.children, 1)
               ELSE [raised |-> FALSE, children |-> <<>>]
    IN  [raised |-> sub.raised,
         attrs |-> [k \in DOMAIN data \ {"children"} |-> AttrText(k, data[k])],
         children |-> sub.children]

method4_dict_to_xml_children(children, i) ==
    IF i > Len(children) THEN [raised |-> FALSE, children |-> <<>>]
    ELSE LET child == children[i]
         IN  IF DOMAIN child = {"text"} THEN [raised |-> TRUE, children |-> <<>>]
             ELSE LET child_elem == method4_dict_to_xml(child)
                      rest == method4_dict_to_xml_children(children, i + 1)
                  IN  IF child_elem.raised \/ rest.raised
                      THEN [raised |-> TRUE, children |-> <<>>]
                      ELSE [raised |-> FALSE,
                            children |->
                               <<[tag |-> IF child.type = "directory"
                                          THEN "directory" ELSE "file",
                                  attrs |-> child_elem.attrs,
                                  children |-> child_elem.children]>> \o rest.children]

\* method4/directory_tree.py: save_tree_xml(start_path, output_file)
method4_save_tree_xml(f, ord) ==
    LET tree_dict == method4_directory_to_dict(f, ord, <<>>)
        x == method4_dict_to_xml(tree_dict)
    IN  IF x.raised THEN [status |-> "AttributeError", tree |-> tree_dict]
        ELSE [status |-> "ok", tree |-> tree_dict,
              file |-> [name |-> "directory_tree.xml",
                        content |-> [tag |-> "directory_tree", attrs |-> x.attrs,
                                     children |-> x.children]]]

(***************************************************************************)
(* directory_tree_generator.py: create_rich_directory_tree and its         *)
(* fallback generate_enhanced_tree.  Neither takes show_hidden and neither *)
(* filters the listing.  The nodes added to the rich Tree are kept in      *)
(* document order; at the depth limit a "... (depth limited)" node (tag    *)
(* "limit") is added.  c is the closure of build_tree: [f, ord, max_depth].*)
(***************************************************************************)
\* the "Count items in directory" block: no hidden filter
RichDirCounts(c, item) ==
    IF ~Listable(c.f, item) THEN [text |-> "?"]
    ELSE LET dir_items == iterdir(c.f, item, c.ord)
         IN  [files |-> Len(SelectSeq(dir_items, LAMBDA n : is_file(c.f, Append(item, n)))),
              dirs |-> Len(SelectSeq(dir_items, LAMBDA n : is_dir(c.f, Append(item, n))))]

RECURSIVE rich_build_tree(_, _, _), rich_build_tree_loop(_, _, _, _, _)
rich_build_tree(c, current_path, current_depth) ==
    IF c.max_depth # None /\ current_depth >= c.max_depth
    THEN <<[tag |-> "limit", path |-> current_path]>>
    ELSE IF ~Listable(c.f, current_path)
    THEN <<[tag |-> "denied", path |-> current_path]>>
    ELSE rich_build_tree_loop(c, current_path, current_depth,
            SortedByKey(iterdir(c.f, current_path, c.ord), DirsFirstKey(c.f, current_path)), 1)

rich_build_tree_loop(c, current_path, current_depth, items, i) ==
    IF i > Len(items) THEN <<>>
    ELSE LET item == Append(current_path, items[i])
         IN  (IF is_dir(c.f, item)
              THEN <<[tag |-> "D", path |-> item, name |-> items[i],
                      info |-> RichDirCounts(c, item)]>>
                   \o rich_build_tree(c, item, current_depth + 1)
              ELSE <<[tag |-> "F", path |-> item, name |-> items[i],
                      info |-> FileInfo(c, item)]>>)
             \o rich_build_tree_loop(c, current_path, current_depth, items, i + 1)

\* generate_enhanced_tree.build_tree: the walk of generate_ascii_tree without
\* the hidden filter and with a line at the depth limit
RECURSIVE enhanced_build_tree(_, _, _, _, _), enhanced_build_tree_loop(_, _, _, _, _, _, _)
enhanced_build_tree(c, current_path, prefix, is_last, depth) ==
    IF c.max_depth # None /\ depth > c.max_depth
    THEN [NoWalk EXCEPT !.lines = <<[tag |-> "limit", path |-> current_path,
                                     prefix |-> prefix, connector |-> Ell]>>,
                        !.calls = <<current_path>>]
    ELSE IF ~Listable(c.f, current_path)
    THEN [NoWalk EXCEPT !.lines = <<DeniedLine(current_path, prefix)>>,
                        !.listed = <<current_path>>, !.calls = <<current_path>>]
    ELSE Then([NoWalk EXCEPT !.listed = <<current_path>>, !.calls = <<current_path>>],
              enhanced_build_tree_loop(c, current_path, prefix, is_last, depth,
                  SortedByKey(iterdir(c.f, current_path, c.ord),
                              DirsFirstKey(c.f, current_path)), 1))

enhanced_build_tree_loop(c, current_path, prefix, is_last, depth, items, i) ==
    IF i > Len(items) THEN NoWalk
    ELSE LET item == Append(current_path, items[i])
             is_last_item == (i = Len(items))
             connector == IF i = 1
                          THEN (IF is_last THEN Ell ELSE Tee)
                          ELSE (IF is_last THEN Blank ELSE Bar)
             next_prefix == Append(prefix, IF is_last THEN Blank ELSE Bar)
             this ==
                 IF is_dir(c.f, item)
                 THEN Then([lines |-> <<[tag |-> "D", path |-> item, prefix |-> prefix,
                                         connector |-> connector, name |-> items[i],
                                         info |-> RichDirCounts(c, item)]>>,
                            dirs |-> 1, files |-> 0, size |-> 0, listed |-> <<item>>, calls |-> <<>>],
                           enhanced_build_tree(c, item, next_prefix, is_last_item, depth + 1))
                 ELSE [lines |-> <<[tag |-> "F", path |-> item, prefix |-> prefix,
                                    connector |-> connector, name |-> items[i],
                                    info |-> FileInfo(c, item)]>>,
                       dirs |-> 0, files |-> 1,
                       size |-> SizeAdded(c, item),
                       listed |-> <<>>, calls |-> <<>>]
         IN  Then(this, enhanced_build_tree_loop(c, current_path, prefix, is_last, depth,
                                                 items, i + 1))

\* there is no exists() test: on a missing start_path iterdir() raises
\* FileNotFoundError, which except PermissionError does not catch
generate_enhanced_tree(f, ord, output_file, max_depth) ==
    IF ~Exists(f, <<>>) THEN [status |-> "FileNotFoundError"]
    ELSE LET w == enhanced_build_tree([f |-> f, ord |-> ord, max_depth |-> max_depth],
                                      <<>>, <<>>, TRUE, 0)
         IN  [status |-> "ok", lines |-> w.lines, total_dirs |-> w.dirs,
              total_files |-> w.files, total_size |-> w.size,
              file |-> [name |-> output_file]]

\* rich_available: whether "from rich import ..." succeeds.  The file that
\* is written always holds the header, so the empty-file fallback of lines
\* 393-396 is never taken.
create_rich_directory_tree(f, ord, max_depth, rich_available) ==
    IF ~rich_available
    THEN generate_enhanced_tree(f, ord, "rich_tree_root_TS.txt", max_depth)
    ELSE IF ~Exists(f, <<>>) THEN [status |-> "FileNotFoundError"]
    ELSE [status |-> "ok",
          lines |-> rich_build_tree([f |-> f, ord |-> ord, max_depth |-> max_depth], <<>>, 0),
          file |-> [name |-> "rich_tree_root_TS.txt"]]

(***************************************************************************)
(* directory_tree_generator.py: generate_all_formats.  results holds, per  *)
(* format and in the order of the calls, what the generator returned;      *)
(* every exception is caught and recorded (a status other than "ok").      *)
(* include_hidden is passed to generate_ascii_tree and                     *)
(* generate_detailed_tree only.                                            *)
(***************************************************************************)
\* one pass of the loop: results.append((fmt, filename)), or in the except
\* Exception clause results.append((fmt, f"ERROR: {e}"))
Recorded(fmt, out) ==
    [fmt |-> fmt, out |-> out,
     result |-> IF out.status = "ok" THEN out.file.name ELSE "ERROR: " \o out.status]

\* the passes for the five formats of the list and the separate rich block
FormatResults(f, ord, depth, include_hidden, rich_available) ==
    <<Recorded("basic", generate_directory_tree(f, ord, depth)),
      Recorded("ascii", generate_ascii_tree(f, ord, include_hidden, depth)),
      Recorded("detailed", generate_detailed_tree(f, ord, include_hidden, depth)),
      Recorded("json", save_tree_json(f, ord, depth)),
      Recorded("xml", save_tree_xml(f, ord, depth)),
      Recorded("rich", create_rich_directory_tree(f, ord, depth, rich_available))>>

\* as generate_all_formats without the try blocks: the first exception ends
\* the call
generate_all_formats_StopsAtError(f, ord, depth, include_hidden, rich_available) ==
    LET r == FormatResults(f, ord, depth, include_hidden, rich_available)
        failed == {k \in 1..Len(r) : r[k].out.status # "ok"}
    IN  IF failed = {} THEN [status |-> "ok", results |-> r]
        ELSE LET k == CHOOSE x \in failed : \A y \in failed : x <= y
             IN  [status |-> r[k].out.status, results |-> SubSeq(r, 1, k - 1)]

generate_all_formats(f, ord, depth, include_hidden, rich_available) ==
    [status |-> "ok",
     results |-> FormatResults(f, ord, depth, include_hidden, rich_available)]

(***************************************************************************)
(* directory_tree_generator.py: main.  A file name is the sequence of its  *)
(* parts, the stem and the extensions after it: "my_tree.txt" is           *)
(* <<"my_tree", ".txt">>; the empty sequence is an absent -o.  args is     *)
(* [output, depth, all, format, auto_all]; the path is the root.           *)
(***************************************************************************)
NoOutput == <<>>

OutputArgs ==
    {NoOutput, <<"my_tree">>, <<"my_tree", ".txt">>, <<"my_tree", ".json">>,
     <<"my_tree", ".xml">>}

FormatArgs == {"basic", "ascii", "rich", "detailed", "json", "xml", "all"}

\* str.endswith(suffixes)
endswith(name, suffixes) == name[Len(name)] \in suffixes

generate_auto_filename(format_type) ==
    LET prefix == CASE format_type = "basic" -> "tree"
                    [] format_type = "ascii" -> "ascii_tree"
                    [] format_type = "rich" -> "rich_tree"
                    [] format_type = "detailed" -> "detailed_tree"
                    [] format_type \in {"json", "xml"} -> "tree_data"
        ext == CASE format_type \in {"basic", "ascii", "rich", "detailed"} -> ".txt"
                 [] format_type = "json" -> ".json"
                 [] format_type = "xml" -> ".xml"
    IN  <<prefix \o "_root_TS", ext>>

\* the name that the generator of the format opens for writing when it is
\* given output_file
opened_file(format, output_file) ==
    CASE format \in {"basic", "ascii", "rich", "detailed"} ->
             IF endswith(output_file, {".txt", ".json", ".xml"}) THEN output_file
             ELSE Append(output_file, ".txt")
      [] format = "json" ->
             IF endswith(output_file, {".json"}) THEN output_file
             ELSE Append(output_file, ".json")
      [] format = "xml" ->
             IF endswith(output_file, {".xml"}) THEN output_file
             ELSE Append(output_file, ".xml")

\* cwd is the current directory after the generator has returned: the file
\* it wrote, with its size, which is positive since every generator writes
\* a header.  report is the line of the final verification.
main(f, ord, args, rich_available) ==
    IF args.auto_all \/ args.format = "all"
    THEN [status |-> "ok",
          all |-> generate_all_formats(f, ord, args.depth, args.all, rich_available)]
    ELSE LET output_file == IF args.output # NoOutput THEN args.output
                            ELSE generate_auto_filename(args.format)
             gen == CASE args.format = "basic" ->
                             generate_directory_tree(f, ord, args.depth)
                      [] args.format = "ascii" ->
                             generate_ascii_tree(f, ord, args.all, args.depth)
                      [] args.format = "rich" ->
                             create_rich_directory_tree(f, ord, args.depth, rich_available)
                      [] args.format = "detailed" ->
                             generate_detailed_tree(f, ord, args.all, args.depth)
                      [] args.format = "json" -> save_tree_json(f, ord, args.depth)
                      [] args.format = "xml" -> save_tree_xml(f, ord, args.depth)
             written == opened_file(args.format, output_file)
             cwd == [n \in {written} |-> 1]
         IN  IF gen.status # "ok"
             THEN [status |-> "exit 1", output_file |-> output_file, error |-> gen.status]
             ELSE [status |-> "ok", output_file |-> output_file, written |-> written,
                   report |-> IF output_file \in DOMAIN cwd
                              THEN IF cwd[output_file] > 0 THEN "SUCCESS"
                                   ELSE "WARNING: File created but empty"
                              ELSE "ERROR: File was not created"]

(***************************************************************************)
(* A symbolic link to a directory.  pathlib follows it: is_dir() is True   *)
(* of the link and iterdir() lists the directory it points to, so every    *)
(* path name below the link denotes the entry of the same name below the   *)
(* target.  The file system maps path names; the entries reached through   *)
(* a link carry the field real, the path name of the entry itself.         *)
(***************************************************************************)
NoLink(f) == \A p \in DOMAIN f : "real" \notin DOMAIN f[p]

\* the entry that the path name p denotes
Real(f, p) == IF "real" \in DOMAIN f[p] THEN f[p].real ELSE p

\* os.symlink(t, q/n, target_is_directory=True) on a tree without links;
\* t is neither q nor above q, so the link closes no cycle
CreateLink(q, n, t) ==
    /\ last.fn = "none"
    /\ NoLink(fs)
    /\ is_dir(fs, q)
    /\ is_dir(fs, t)
    /\ Searchable(fs, t)
    /\ Append(q, n) \notin DOMAIN fs
    /\ Cardinality(DOMAIN fs) <= MaxEntries
    /\ ~(Len(t) <= Len(q) /\ SubSeq(q, 1, Len(t)) = t)
    /\ LET below == {p \in DOMAIN fs : Len(p) >= Len(t) /\ SubSeq(p, 1, Len(t)) = t}
           through == [p \in below |-> Append(q, n) \o SubSeq(p, Len(t) + 1, Len(p))]
       IN  /\ \A p \in below : Len(through[p]) <= MaxPathLen
           /\ fs' = [x \in {through[p] : p \in below} |->
                        LET p == CHOOSE y \in below : through[y] = x
                        IN  fs[p] @@ [real |-> p]] @@ fs
    /\ UNCHANGED last

(***************************************************************************)
(* The tree under the root is set up before the program is called: an      *)
(* entry is created below an existing directory.  The generators are       *)
(* single-threaded and synchronous, so the tree does not change once the   *)
(* first call has been made.                                               *)
(***************************************************************************)
CreateEntry(q, n, e) ==
    /\ last.fn = "none"
    /\ NoLink(fs)
    /\ is_dir(fs, q)
    /\ Len(q) < MaxPathLen
    /\ Append(q, n) \notin DOMAIN fs
    /\ Cardinality(DOMAIN fs) <= MaxEntries
    /\ fs' = (Append(q, n) :> e) @@ fs
    /\ UNCHANGED last

Init ==
    /\ fs = RootOnly
    /\ last = [fn |-> "none"]

\* Permutations of Names: the orders in which a directory may be listed
Perms(S) ==
    {s \in [1..Cardinality(S) -> S] : \A i, j \in 1..Cardinality(S) : i # j => s[i] # s[j]}

Reverse(s) == [i \in 1..Len(s) |-> s[Len(s) + 1 - i]]

\* Two listing orders, one the reverse of the other: every two siblings are
\* listed in both relative orders.
ListingOrders ==
    LET asc == CHOOSE s \in Perms(Names) : \A i \in 1..(Len(s) - 1) : StrLess(Chars(s[i]), Chars(s[i + 1]))
    IN  {asc, Reverse(asc)}

DepthArgs == {None} \cup (0..MaxDepthArg)

Method1GenerateDirectoryTree(ord, max_depth) ==
    /\ last.fn = "none"
    /\ last' = [fn |-> "method1.generate_directory_tree", max_depth |-> max_depth,
                out |-> method1_generate_directory_tree(fs, ord, max_depth)]
    /\ UNCHANGED fs

GenerateDirectoryTree(ord, max_depth) ==
    /\ last.fn = "none"
    /\ last' = [fn |-> "generate_directory_tree", max_depth |-> max_depth,
                out |-> generate_directory_tree(fs, ord, max_depth)]
    /\ UNCHANGED fs

GenerateAsciiTree(ord, show_hidden, max_depth) ==
    /\ last.fn = "none"
    /\ last' = [fn |-> "generate_ascii_tree", show_hidden |-> show_hidden,
                max_depth |-> max_depth,
                out |-> generate_ascii_tree(fs, ord, show_hidden, max_depth)]
    /\ UNCHANGED fs

GenerateDetailedTree(ord, show_hidden, max_depth) ==
    /\ last.fn = "none"
    /\ last' = [fn |-> "generate_detailed_tree", show_hidden |-> show_hidden,
                max_depth |-> max_depth,
                out |-> generate_detailed_tree(fs, ord, show_hidden, max_depth)]
    /\ UNCHANGED fs

Method3GenerateDetailedTree(ord, show_hidden) ==
    /\ last.fn = "none"
    /\ last' = [fn |-> "method3.generate_detailed_tree", show_hidden |-> show_hidden,
                max_depth |-> None,
                out |-> method3_generate_detailed_tree(fs, ord, show_hidden)]
    /\ UNCHANGED fs

DirectoryToDict(ord, max_depth) ==
    /\ last.fn = "none"
    /\ last' = [fn |-> "directory_to_dict", max_depth |-> max_depth,
                out |-> directory_to_dict(fs, ord, <<>>, max_depth, 0)]
    /\ UNCHANGED fs

SaveTreeJson(ord, max_depth) ==
    /\ last.fn = "none"
    /\ last' = [fn |-> "save_tree_json", max_depth |-> max_depth,
                out |-> save_tree_json(fs, ord, max_depth)]
    /\ UNCHANGED fs

SaveTreeXml(ord, max_depth) ==
    /\ last.fn = "none"
    /\ last' = [fn |-> "save_tree_xml", max_depth |-> max_depth,
                out |-> save_tree_xml(fs, ord, max_depth)]
    /\ UNCHANGED fs

Method4SaveTreeJson(ord) ==
    /\ last.fn = "none"
    /\ last' = [fn |-> "method4.save_tree_json", max_depth |-> None,
                out |-> method4_save_tree_json(fs, ord)]
    /\ UNCHANGED fs

\* the directory named by start_path is removed before the program is called
RemoveRoot ==
    /\ last.fn = "none"
    /\ fs = RootOnly
    /\ fs' = NoRoot
    /\ UNCHANGED last

Method2CreateRichDirectoryTree(ord, max_depth) ==
    /\ last.fn = "none"
    /\ last' = [fn |-> "method2.create_rich_directory_tree", max_depth |-> max_depth,
                out |-> method2_create_rich_directory_tree(fs, ord, max_depth)]
    /\ UNCHANGED fs

Method4DirectoryToDict(ord) ==
    /\ last.fn = "none"
    /\ last' = [fn |-> "method4.directory_to_dict", max_depth |-> None,
                out |-> method4_directory_to_dict(fs, ord, <<>>)]
    /\ UNCHANGED fs

\* the process ends; the next run starts from the same tree
CreateRichDirectoryTree(ord, max_depth, rich_available) ==
    /\ last.fn = "none"
    /\ last' = [fn |-> "create_rich_directory_tree", max_depth |-> max_depth,
                out |-> create_rich_directory_tree(fs, ord, max_depth, rich_available)]
    /\ UNCHANGED fs

GenerateAllFormats(ord, depth, include_hidden, rich_available) ==
    /\ last.fn = "none"
    /\ last' = [fn |-> "generate_all_formats", max_depth |-> depth,
                include_hidden |-> include_hidden,
                out |-> generate_all_formats(fs, ord, depth, include_hidden, rich_available)]
    /\ UNCHANGED fs

Method4SaveTreeXml(ord) ==
    /\ last.fn = "none"
    /\ last' = [fn |-> "method4.save_tree_xml", max_depth |-> None,
                out |-> method4_save_tree_xml(fs, ord)]
    /\ UNCHANGED fs

(***************************************************************************)
(* The same calls made with the walked root as the current directory (the  *)
(* default path '.').  The automatic output name is relative, so           *)
(* open(output_file, 'w') creates the file among the entries of the root.  *)
(***************************************************************************)
\* the tree after the call has written its file, if it wrote one
Written(f, out) ==
    IF "file" \in DOMAIN out
    THEN (<<out.file.name>> :> CHOOSE e \in OneSize : e.kind = "file") @@ f
    ELSE f

GenerateDirectoryTreeInRoot(ord, max_depth) ==
    LET out == generate_directory_tree(fs, ord, max_depth)
    IN  /\ last.fn = "none"
        /\ Exists(fs, <<>>)
        /\ last' = [fn |-> "generate_directory_tree", max_depth |-> max_depth, out |-> out]
        /\ fs' = Written(fs, out)

GenerateAsciiTreeInRoot(ord, show_hidden, max_depth) ==
    LET out == generate_ascii_tree(fs, ord, show_hidden, max_depth)
    IN  /\ last.fn = "none"
        /\ Exists(fs, <<>>)
        /\ last' = [fn |-> "generate_ascii_tree", show_hidden |-> show_hidden,
                    max_depth |-> max_depth, out |-> out]
        /\ fs' = Written(fs, out)

GenerateDetailedTreeInRoot(ord, show_hidden, max_depth) ==
    LET out == generate_detailed_tree(fs, ord, show_hidden, max_depth)
    IN  /\ last.fn = "none"
        /\ Exists(fs, <<>>)
        /\ last' = [fn |-> "generate_detailed_tree", show_hidden |-> show_hidden,
                    max_depth |-> max_depth, out |-> out]
        /\ fs' = Written(fs, out)

SaveTreeJsonInRoot(ord, max_depth) ==
    LET out == save_tree_json(fs, ord, max_depth)
    IN  /\ last.fn = "none"
        /\ Exists(fs, <<>>)
        /\ last' = [fn |-> "save_tree_json", max_depth |-> max_depth, out |-> out]
        /\ fs' = Written(fs, out)

SaveTreeXmlInRoot(ord, max_depth) ==
    LET out == save_tree_xml(fs, ord, max_depth)
    IN  /\ last.fn = "none"
        /\ Exists(fs, <<>>)
        /\ last' = [fn |-> "save_tree_xml", max_depth |-> max_depth, out |-> out]
        /\ fs' = Written(fs, out)

Main(ord, output, depth, all, format, auto_all, rich_available) ==
    /\ last.fn = "none"
    /\ last' = [fn |-> "main", output |-> output, max_depth |-> depth,
                show_hidden |-> all, format |-> format, auto_all |-> auto_all,
                out |-> main(fs, ord, [output |-> output, depth |-> depth, all |-> all,
                                       format |-> format, auto_all |-> auto_all],
                             rich_available)]
    /\ UNCHANGED fs

Exit ==
    /\ last.fn # "none"
    /\ last' = [fn |-> "none"]
    /\ UNCHANGED fs

Setup == \E q \in DOMAIN fs, n \in Names, e \in EntryValues : CreateEntry(q, n, e)

\* "B" and "b" differ in case only.  Where the tie does not matter the trees
\* are set up from the other names: one lower-case, one upper-case, one hidden.
PlainNames == Names \ {"b"}

SetupPlain == \E q \in DOMAIN fs, n \in PlainNames, e \in EntryValues : CreateEntry(q, n, e)

\* Where the sizes do not matter the files all have the smallest size.
SetupOneSize == \E q \in DOMAIN fs, n \in PlainNames, e \in OneSize : CreateEntry(q, n, e)

\* Where the order of the siblings does not matter either, two names: one
\* shown, one hidden.
SetupTwoNames ==
    \E q \in DOMAIN fs, n \in {"a", ".c"}, e \in OneSize : CreateEntry(q, n, e)

\* one link to a directory, made once the entries are there
SetupLink == \E q \in DOMAIN fs, n \in PlainNames, t \in DOMAIN fs : CreateLink(q, n, t)

Next ==
    \/ Setup
    \/ \E ord \in ListingOrders, d \in DepthArgs : Method1GenerateDirectoryTree(ord, d)
    \/ \E ord \in ListingOrders, d \in DepthArgs : GenerateDirectoryTree(ord, d)
    \/ \E ord \in ListingOrders, h \in BOOLEAN, d \in DepthArgs : GenerateAsciiTree(ord, h, d)
    \/ \E ord \in ListingOrders, h \in BOOLEAN, d \in DepthArgs : GenerateDetailedTree(ord, h, d)
    \/ \E ord \in ListingOrders, h \in BOOLEAN : Method3GenerateDetailedTree(ord, h)
    \/ \E ord \in ListingOrders, d \in DepthArgs : DirectoryToDict(ord, d)
    \/ \E ord \in ListingOrders, d \in DepthArgs : Method2CreateRichDirectoryTree(ord, d)
    \/ \E ord \in ListingOrders : Method4DirectoryToDict(ord)
    \/ \E ord \in ListingOrders, d \in DepthArgs : SaveTreeJson(ord, d)
    \/ \E ord \in ListingOrders, d \in DepthArgs : SaveTreeXml(ord, d)
    \/ \E ord \in ListingOrders : Method4SaveTreeJson(ord)
    \/ RemoveRoot
    \/ SetupLink
    \/ \E ord \in ListingOrders, o \in OutputArgs, d \in DepthArgs, h \in BOOLEAN,
          fmt \in FormatArgs, aa \in BOOLEAN, r \in BOOLEAN : Main(ord, o, d, h, fmt, aa, r)
    \/ \E ord \in ListingOrders, d \in DepthArgs : GenerateDirectoryTreeInRoot(ord, d)
    \/ \E ord \in ListingOrders, h \in BOOLEAN, d \in DepthArgs : GenerateAsciiTreeInRoot(ord, h, d)
    \/ \E ord \in ListingOrders, h \in BOOLEAN, d \in DepthArgs : GenerateDetailedTreeInRoot(ord, h, d)
    \/ \E ord \in ListingOrders, d \in DepthArgs : SaveTreeJsonInRoot(ord, d)
    \/ \E ord \in ListingOrders, d \in DepthArgs : SaveTreeXmlInRoot(ord, d)
    \/ \E ord \in ListingOrders : Method4SaveTreeXml(ord)
    \/ \E ord \in ListingOrders, d \in DepthArgs, r \in BOOLEAN : CreateRichDirectoryTree(ord, d, r)
    \/ \E ord \in ListingOrders, d \in DepthArgs, h, r \in BOOLEAN : GenerateAllFormats(ord, d, h, r)
    \/ Exit

Spec == Init /\ [][Next]_vars

(***************************************************************************)
(* Specifications that call only the generators, and only with the         *)
(* arguments, that a property is about.                                    *)
(***************************************************************************)
Limits == 0..MaxDepthArg

\* the two basic generators
NextBasic ==
    \/ Setup
    \/ \E ord \in ListingOrders, d \in DepthArgs : Method1GenerateDirectoryTree(ord, d)
    \/ \E ord \in ListingOrders, d \in DepthArgs : GenerateDirectoryTree(ord, d)
    \/ Exit

SpecBasic == Init /\ [][NextBasic]_vars

\* directory_to_dict alone
NextDict ==
    \/ Setup
    \/ \E ord \in ListingOrders, d \in DepthArgs : DirectoryToDict(ord, d)
    \/ Exit

SpecDict == Init /\ [][NextDict]_vars

\* unlimited depth, hidden entries included: generate_ascii_tree and directory_to_dict
NextSize ==
    \/ Setup
    \/ \E ord \in ListingOrders : GenerateAsciiTree(ord, TRUE, None)
    \/ \E ord \in ListingOrders : DirectoryToDict(ord, None)
    \/ Exit

SpecSize == Init /\ [][NextSize]_vars

\* unlimited depth: the two counting generators
NextUnlimited ==
    \/ Setup
    \/ \E ord \in ListingOrders, h \in BOOLEAN : GenerateAsciiTree(ord, h, None)
    \/ \E ord \in ListingOrders, h \in BOOLEAN : GenerateDetailedTree(ord, h, None)
    \/ Exit

SpecUnlimited == Init /\ [][NextUnlimited]_vars

\* a depth limit is given: every walker that takes one
NextDepth ==
    \/ SetupPlain
    \/ \E ord \in ListingOrders, d \in Limits : Method1GenerateDirectoryTree(ord, d)
    \/ \E ord \in ListingOrders, h \in BOOLEAN, d \in Limits : GenerateAsciiTree(ord, h, d)
    \/ \E ord \in ListingOrders, h \in BOOLEAN, d \in Limits : GenerateDetailedTree(ord, h, d)
    \/ \E ord \in ListingOrders, d \in Limits : DirectoryToDict(ord, d)
    \/ Exit

SpecDepth == Init /\ [][NextDepth]_vars

\* a depth limit is given: the two counting generators
NextLimited ==
    \/ SetupPlain
    \/ \E ord \in ListingOrders, h \in BOOLEAN, d \in Limits : GenerateAsciiTree(ord, h, d)
    \/ \E ord \in ListingOrders, h \in BOOLEAN, d \in Limits : GenerateDetailedTree(ord, h, d)
    \/ Exit

SpecLimited == Init /\ [][NextLimited]_vars

\* show_hidden=False: the three generators that take the flag
NextHidden ==
    \/ SetupPlain
    \/ \E ord \in ListingOrders, d \in DepthArgs : GenerateAsciiTree(ord, FALSE, d)
    \/ \E ord \in ListingOrders, d \in DepthArgs : GenerateDetailedTree(ord, FALSE, d)
    \/ \E ord \in ListingOrders : Method3GenerateDetailedTree(ord, FALSE)
    \/ Exit

SpecHidden == Init /\ [][NextHidden]_vars

\* the walkers that sort with the directories-first key
NextSorted ==
    \/ SetupPlain
    \/ \E ord \in ListingOrders, h \in BOOLEAN, d \in DepthArgs : GenerateAsciiTree(ord, h, d)
    \/ \E ord \in ListingOrders, h \in BOOLEAN, d \in DepthArgs : GenerateDetailedTree(ord, h, d)
    \/ \E ord \in ListingOrders, d \in DepthArgs : DirectoryToDict(ord, d)
    \/ \E ord \in ListingOrders : Method4DirectoryToDict(ord)
    \/ Exit

SpecSorted == Init /\ [][NextSorted]_vars

\* the walkers that sort a listing, on trees with names that differ in case only
NextOrder ==
    \/ Setup
    \/ \E ord \in ListingOrders, d \in DepthArgs : Method1GenerateDirectoryTree(ord, d)
    \/ \E ord \in ListingOrders, h \in BOOLEAN, d \in DepthArgs : GenerateAsciiTree(ord, h, d)
    \/ \E ord \in ListingOrders, h \in BOOLEAN, d \in DepthArgs : GenerateDetailedTree(ord, h, d)
    \/ \E ord \in ListingOrders, d \in DepthArgs : DirectoryToDict(ord, d)
    \/ Exit

SpecOrder == Init /\ [][NextOrder]_vars

\* method1's generate_directory_tree alone
NextMethod1 ==
    \/ SetupPlain
    \/ \E ord \in ListingOrders, d \in DepthArgs : Method1GenerateDirectoryTree(ord, d)
    \/ Exit

SpecMethod1 == Init /\ [][NextMethod1]_vars

\* the four walkers that take a depth limit, with and without one
NextDenied ==
    \/ SetupOneSize
    \/ \E ord \in ListingOrders, d \in DepthArgs : Method1GenerateDirectoryTree(ord, d)
    \/ \E ord \in ListingOrders, h \in BOOLEAN, d \in DepthArgs : GenerateAsciiTree(ord, h, d)
    \/ \E ord \in ListingOrders, h \in BOOLEAN, d \in DepthArgs : GenerateDetailedTree(ord, h, d)
    \/ \E ord \in ListingOrders, d \in DepthArgs : DirectoryToDict(ord, d)
    \/ Exit

SpecDenied == Init /\ [][NextDenied]_vars

\* the six walkers, on trees with denied directories and dangling links
NextAccess ==
    \/ SetupOneSize
    \/ \E ord \in ListingOrders, d \in DepthArgs : Method1GenerateDirectoryTree(ord, d)
    \/ \E ord \in ListingOrders, d \in DepthArgs : Method2CreateRichDirectoryTree(ord, d)
    \/ \E ord \in ListingOrders, h \in BOOLEAN : Method3GenerateDetailedTree(ord, h)
    \/ \E ord \in ListingOrders, h \in BOOLEAN, d \in DepthArgs : GenerateAsciiTree(ord, h, d)
    \/ \E ord \in ListingOrders, h \in BOOLEAN, d \in DepthArgs : GenerateDetailedTree(ord, h, d)
    \/ \E ord \in ListingOrders, d \in DepthArgs : DirectoryToDict(ord, d)
    \/ Exit

SpecAccess == Init /\ [][NextAccess]_vars

\* the five generators of directory_tree_generator.py that write a file,
\* on a start path that may not exist
NextRoot ==
    \/ SetupOneSize
    \/ RemoveRoot
    \/ \E ord \in ListingOrders, d \in DepthArgs : GenerateDirectoryTree(ord, d)
    \/ \E ord \in ListingOrders, h \in BOOLEAN, d \in DepthArgs : GenerateAsciiTree(ord, h, d)
    \/ \E ord \in ListingOrders, h \in BOOLEAN, d \in DepthArgs : GenerateDetailedTree(ord, h, d)
    \/ \E ord \in ListingOrders, d \in DepthArgs : SaveTreeJson(ord, d)
    \/ \E ord \in ListingOrders, d \in DepthArgs : SaveTreeXml(ord, d)
    \/ Exit

SpecRoot == Init /\ [][NextRoot]_vars

\* the three generators that draw the tree with connectors and counts
NextText ==
    \/ SetupOneSize
    \/ \E ord \in ListingOrders, h \in BOOLEAN, d \in DepthArgs : GenerateAsciiTree(ord, h, d)
    \/ \E ord \in ListingOrders, h \in BOOLEAN, d \in DepthArgs : GenerateDetailedTree(ord, h, d)
    \/ \E ord \in ListingOrders, h \in BOOLEAN : Method3GenerateDetailedTree(ord, h)
    \/ Exit

SpecText == Init /\ [][NextText]_vars

\* the two functions that write the tree as XML
NextXml ==
    \/ SetupOneSize
    \/ \E ord \in ListingOrders, d \in DepthArgs : SaveTreeXml(ord, d)
    \/ \E ord \in ListingOrders : Method4SaveTreeXml(ord)
    \/ Exit

SpecXml == Init /\ [][NextXml]_vars

\* generate_all_formats, with and without the rich package, on a start path
\* that may not exist
NextAll ==
    \/ SetupOneSize
    \/ RemoveRoot
    \/ \E ord \in ListingOrders, d \in DepthArgs, h, r \in BOOLEAN : GenerateAllFormats(ord, d, h, r)
    \/ Exit

SpecAll == Init /\ [][NextAll]_vars

\* the five generators that write a file, called in the walked root on the
\* whole tree
NextCwd ==
    \/ SetupTwoNames
    \/ \E ord \in ListingOrders : GenerateDirectoryTreeInRoot(ord, None)
    \/ \E ord \in ListingOrders : GenerateAsciiTreeInRoot(ord, TRUE, None)
    \/ \E ord \in ListingOrders : GenerateDetailedTreeInRoot(ord, TRUE, None)
    \/ \E ord \in ListingOrders : SaveTreeJsonInRoot(ord, None)
    \/ \E ord \in ListingOrders : SaveTreeXmlInRoot(ord, None)
    \/ Exit

SpecCwd == Init /\ [][NextCwd]_vars

\* the command line program, run with -a and without -d
NextMain ==
    \/ SetupTwoNames
    \/ RemoveRoot
    \/ \E ord \in ListingOrders, o \in OutputArgs, fmt \in FormatArgs, aa \in BOOLEAN,
          r \in BOOLEAN : Main(ord, o, None, TRUE, fmt, aa, r)
    \/ Exit

SpecMain == Init /\ [][NextMain]_vars

\* the same calls on the smaller trees
NextFormats ==
    \/ SetupTwoNames
    \/ RemoveRoot
    \/ \E ord \in ListingOrders, d \in DepthArgs, h, r \in BOOLEAN : GenerateAllFormats(ord, d, h, r)
    \/ Exit

SpecFormats == Init /\ [][NextFormats]_vars

\* the two functions that write the tree as JSON
NextJson ==
    \/ SetupPlain
    \/ \E ord \in ListingOrders, d \in DepthArgs : SaveTreeJson(ord, d)
    \/ \E ord \in ListingOrders : Method4SaveTreeJson(ord)
    \/ Exit

SpecJson == Init /\ [][NextJson]_vars

\* method1 walk_directory, build_tree and directory_to_dict on trees with
\* one link to a directory
NextLinks ==
    \/ SetupOneSize
    \/ SetupLink
    \/ \E ord \in ListingOrders, d \in DepthArgs : Method1GenerateDirectoryTree(ord, d)
    \/ \E ord \in ListingOrders, h \in BOOLEAN, d \in DepthArgs : GenerateAsciiTree(ord, h, d)
    \/ \E ord \in ListingOrders, d \in DepthArgs : DirectoryToDict(ord, d)
    \/ Exit

SpecLinks == Init /\ [][NextLinks]_vars

(***************************************************************************)
(* Vocabulary of the properties.                                           *)
(***************************************************************************)
\* the call that has just returned normally
Returned(fn) == last.fn = fn /\ last.out.status = "ok"

\* the lines that stand for entries
EntryLines(lines) == SelectSeq(lines, LAMBDA l : l.tag \in {"entry", "D", "F"})

\* the lines between header and footer
BodyLines(lines) == SelectSeq(lines, LAMBDA l : l.tag \notin {"header", "rule", "root"})

\* depth of an entry, the root's direct children being at depth 0
DepthOf(p) == Len(p) - 1

Range(seq) == {seq[i] : i \in 1..Len(seq)}

Hidden(p) == \E k \in 1..Len(p) : StartsWithDot(p[k])

\* p is below the root and every directory above it can be listed
Reachable(f, p) ==
    /\ p # <<>>
    /\ \A k \in 0..(Len(p) - 1) : is_dir(f, SubSeq(p, 1, k)) /\ f[SubSeq(p, 1, k)].listable

\* the entries a walk with these parameters is to show
Shown(f, show_hidden, max_depth) ==
    {p \in DOMAIN f : /\ Reachable(f, p)
                      /\ (show_hidden \/ ~Hidden(p))
                      /\ (max_depth = None \/ DepthOf(p) <= max_depth)}

RECURSIVE SumSizes(_, _)
SumSizes(f, S) ==
    IF S = {} THEN 0
    ELSE LET p == CHOOSE x \in S : TRUE IN f[p].size + SumSizes(f, S \ {p})

\* the files among S whose stat() succeeds
StatFiles(f, S) == {p \in S : f[p].kind = "file" /\ StatOK(f, p)}

\* the tree of the scenario: a (10 bytes), B/, B/b (5 bytes)
ScenarioTree ==
    (<<>> :> [kind |-> "dir", size |-> 0, listable |-> TRUE])
    @@ (<<"a">> :> [kind |-> "file", size |-> 10, listable |-> FALSE])
    @@ (<<"B">> :> [kind |-> "dir", size |-> 0, listable |-> TRUE])
    @@ (<<"B", "b">> :> [kind |-> "file", size |-> 5, listable |-> FALSE])

\* nodes of a directory_to_dict tree, each with its nesting depth below the
\* root node (the root's children are at depth 0)
RECURSIVE NodesAt(_, _)
NodesAt(node, k) ==
    IF "children" \in DOMAIN node
    THEN UNION {{[node |-> node.children[i], depth |-> k]} \cup NodesAt(node.children[i], k + 1)
                : i \in 1..Len(node.children)}
    ELSE {}

DictNodes(root) == {[node |-> root, depth |-> -1]} \cup NodesAt(root, 0)

\* sum of the 'size' of the file nodes reachable from node through 'children'
RECURSIVE FileNodeSum(_), FileNodeSumSeq(_)
FileNodeSum(node) ==
    IF "children" \in DOMAIN node THEN FileNodeSumSeq(node.children)
    ELSE IF "type" \in DOMAIN node /\ node.type = "file" /\ "size" \in DOMAIN node
    THEN node.size
    ELSE 0

FileNodeSumSeq(nodes) ==
    IF nodes = <<>> THEN 0 ELSE FileNodeSum(Head(nodes)) + FileNodeSumSeq(Tail(nodes))

(***************************************************************************)
(* C1: generate_directory_tree of directory_tree_generator.py returns,     *)
(* between header and footer, exactly the entry lines that method1's       *)
(* generate_directory_tree produces after its root line, for the same root *)
(* and max_depth.                                                          *)
(***************************************************************************)
C1_BasicTreeHasMethod1Lines ==
    Returned("generate_directory_tree") =>
        \A ord \in ListingOrders :
            BodyLines(last.out.lines)
                = BodyLines(method1_generate_directory_tree(fs, ord, last.max_depth).lines)

(***************************************************************************)
(* C2: in the tree returned by directory_to_dict, every directory node's   *)
(* 'size' is the sum of the 'size' of the file nodes reachable from it     *)
(* through 'children'; file nodes without a size and the permission-denied *)
(* sentinel contribute zero.                                               *)
(***************************************************************************)
C2_DirSizeIsSumOfFileNodes ==
    last.fn = "directory_to_dict" =>
        \A x \in DictNodes(last.out) :
            ("type" \in DOMAIN x.node /\ x.node.type = "directory")
                => x.node.size = FileNodeSum(x.node)

\* a nested directory with a sized file, next to a file whose stat() failed
C2_Witness ==
    /\ last.fn = "directory_to_dict"
    /\ last.out.size = 5
    /\ \E x \in DictNodes(last.out) :
          x.depth = 0 /\ "children" \in DOMAIN x.node /\ x.node.size = 5
    /\ \E x \in DictNodes(last.out) : "error" \in DOMAIN x.node /\ "type" \in DOMAIN x.node

CountsOf(out) ==
    IF last.fn = "generate_ascii_tree"
    THEN <<out.total_dirs, out.total_files, out.total_size>>
    ELSE <<out.dir_count, out.file_count, out.total_size>>

C4_CountsMatchLines ==
    ((Returned("generate_ascii_tree") \/ Returned("generate_detailed_tree"))
        /\ last.max_depth = None) =>
        LET shown == Shown(fs, last.show_hidden, None)
            dirLines == SelectSeq(last.out.lines, LAMBDA l : l.tag = "D")
            fileLines == SelectSeq(last.out.lines, LAMBDA l : l.tag = "F")
            counts == CountsOf(last.out)
        IN  /\ counts[1] = Len(dirLines)
            /\ {l.path : l \in Range(dirLines)} = {p \in shown : fs[p].kind = "dir"}
            /\ counts[1] = Cardinality({p \in shown : fs[p].kind = "dir"})
            /\ counts[2] = Len(fileLines)
            /\ {l.path : l \in Range(fileLines)} = {p \in shown : fs[p].kind # "dir"}
            /\ counts[2] = Cardinality({p \in shown : fs[p].kind # "dir"})
            /\ counts[3] = SumSizes(fs, StatFiles(fs, shown))
            /\ (fs = ScenarioTree => counts = <<1, 2, 15>>)

\* the scenario: a (10 bytes) and B/ holding b (5 bytes)
C4_Witness ==
    /\ Returned("generate_ascii_tree")
    /\ last.max_depth = None
    /\ fs = ScenarioTree
    /\ CountsOf(last.out) = <<1, 2, 15>>

(***************************************************************************)
(* C5: with max_depth = d >= 0, the root's direct children being at depth  *)
(* 0, no walker (method1 walk_directory, generate_ascii_tree,              *)
(* generate_detailed_tree, directory_to_dict) emits an entry of depth > d. *)
(***************************************************************************)
C5_NoEntryBelowLimit ==
    /\ ((Returned("method1.generate_directory_tree") \/ Returned("generate_ascii_tree")
            \/ Returned("generate_detailed_tree")) /\ last.max_depth # None) =>
          \A l \in Range(EntryLines(last.out.lines)) : DepthOf(l.path) <= last.max_depth
    /\ (last.fn = "directory_to_dict" /\ last.max_depth # None) =>
          \A x \in DictNodes(last.out) : x.depth <= last.max_depth

\* a walk that shows the first level and cuts an entry of the second
C5_Witness ==
    /\ Returned("generate_ascii_tree")
    /\ last.max_depth = 0
    /\ \E p \in Shown(fs, last.show_hidden, None) : DepthOf(p) = 1
    /\ \E l \in Range(EntryLines(last.out.lines)) : DepthOf(l.path) = 0 /\ l.tag = "D"

(***************************************************************************)
(* C6: with max_depth = 0 every walker that takes a depth limit (method1   *)
(* walk_directory, generate_ascii_tree, generate_detailed_tree,            *)
(* directory_to_dict) emits one node or line for each direct child of the  *)
(* root.                                                                   *)
(***************************************************************************)
C6_DepthZeroShowsChildren ==
    /\ ((Returned("method1.generate_directory_tree") \/ Returned("generate_ascii_tree")
            \/ Returned("generate_detailed_tree")) /\ last.max_depth = 0) =>
          LET h == IF last.fn = "method1.generate_directory_tree" THEN TRUE
                   ELSE last.show_hidden
          IN  \A p \in Shown(fs, h, 0) :
                 Cardinality({i \in 1..Len(last.out.lines) :
                                 last.out.lines[i].tag \in {"entry", "D", "F"}
                                 /\ last.out.lines[i].path = p}) = 1
    /\ (last.fn = "directory_to_dict" /\ last.max_depth = 0) =>
          \A p \in Shown(fs, TRUE, 0) :
              "children" \in DOMAIN last.out
              /\ Cardinality({i \in 1..Len(last.out.children) :
                                 "name" \in DOMAIN last.out.children[i]
                                 /\ last.out.children[i].name = p[1]}) = 1

(***************************************************************************)
(* C7: a directory whose contents are skipped because of the depth limit   *)
(* carries a truncation marker: in the output of method1 walk_directory    *)
(* and of directory_to_dict, a non-empty directory cut off by max_depth is *)
(* distinguishable from a directory that has no children, that is, the     *)
(* output differs from the output for the tree in which that directory is  *)
(* empty.                                                                  *)
(***************************************************************************)
\* the tree f with everything below p removed
Emptied(f, p) ==
    [q \in {q \in DOMAIN f : ~(Len(q) > Len(p) /\ SubSeq(q, 1, Len(p)) = p)} |-> f[q]]

\* the listable, non-empty directories whose line or node is emitted and
\* whose entries are all cut off by max_depth
CutOffMethod1(f, max_depth) ==
    {p \in Shown(f, TRUE, max_depth) :
        /\ f[p].kind = "dir" /\ f[p].listable
        /\ DepthOf(p) = max_depth
        /\ \E q \in DOMAIN f : Len(q) = Len(p) + 1 /\ SubSeq(q, 1, Len(p)) = p}

CutOffDict(f, max_depth) ==
    {p \in DOMAIN f :
        /\ (p = <<>> \/ Reachable(f, p))
        /\ f[p].kind = "dir" /\ f[p].listable
        /\ Len(p) = max_depth
        /\ \E q \in DOMAIN f : Len(q) = Len(p) + 1 /\ SubSeq(q, 1, Len(p)) = p}

C7_CutOffIsMarked ==
    /\ (Returned("method1.generate_directory_tree") /\ last.max_depth # None) =>
          \A p \in CutOffMethod1(fs, last.max_depth) : \A ord \in ListingOrders :
              last.out # method1_generate_directory_tree(Emptied(fs, p), ord, last.max_depth)
    /\ (last.fn = "directory_to_dict" /\ last.max_depth # None) =>
          \A p \in CutOffDict(fs, last.max_depth) : \A ord \in ListingOrders :
              last.out # directory_to_dict(Emptied(fs, p), ord, <<>>, last.max_depth, 0)

(***************************************************************************)
(* C8: a directory node at which directory_to_dict stopped because of      *)
(* max_depth has children = [] and size = 0, whatever lies beneath it: on  *)
(* the scenario tree a walk that truncates at B yields B with children =   *)
(* [] and size = 0, and a root of size 10.                                 *)
(***************************************************************************)
\* the nodes of the tree at which the recursion stopped because of max_depth
CutNodes(root, max_depth) ==
    {x \in DictNodes(root) : "children" \in DOMAIN x.node /\ x.depth + 1 = max_depth}

C8_TruncatedSizeIsZero ==
    (last.fn = "directory_to_dict" /\ last.max_depth # None) =>
        /\ \A x \in CutNodes(last.out, last.max_depth) :
              x.node.children = <<>> /\ x.node.size = 0
        /\ (fs = ScenarioTree /\ last.max_depth = 1) =>
              /\ last.out.size = 10
              /\ \E i \in 1..Len(last.out.children) :
                    /\ last.out.children[i].name = "B"
                    /\ last.out.children[i].children = <<>>
                    /\ last.out.children[i].size = 0

\* the scenario, truncated at B
C8_Witness ==
    /\ last.fn = "directory_to_dict"
    /\ last.max_depth = 1
    /\ fs = ScenarioTree
    /\ \E x \in CutNodes(last.out, 1) : x.node.name = "B" /\ x.node.size = 0

\* C8 as stated: the truncated node's size is the sum of the sizes of the
\* files beneath it (B has children = [] and size = 5)
C8_TruncatedSizeIsSubtreeSum ==
    (last.fn = "directory_to_dict" /\ last.max_depth # None) =>
        \A x \in CutNodes(last.out, last.max_depth) :
            /\ x.node.children = <<>>
            /\ x.node.size = SumSizes(fs, StatFiles(fs,
                   {q \in DOMAIN fs : /\ Len(q) > Len(x.node.path)
                                      /\ SubSeq(q, 1, Len(x.node.path)) = x.node.path
                                      /\ Reachable(fs, q)}))

(***************************************************************************)
(* C9: in generate_ascii_tree and generate_detailed_tree, iterdir() is     *)
(* called exactly once, for the counts shown on its line, on each emitted  *)
(* directory whose children are cut off by max_depth, and never on a       *)
(* directory below the limit.                                              *)
(***************************************************************************)
TimesListed(p) == Cardinality({i \in 1..Len(last.out.listed) : last.out.listed[i] = p})

C9_CutOffListedOnceForCounts ==
    ((Returned("generate_ascii_tree") \/ Returned("generate_detailed_tree"))
        /\ last.max_depth # None) =>
        /\ \A p \in Range(last.out.listed) : DepthOf(p) <= last.max_depth
        /\ \A p \in Shown(fs, last.show_hidden, last.max_depth) :
              (fs[p].kind = "dir" /\ DepthOf(p) = last.max_depth) => TimesListed(p) = 1

\* a directory with an entry, shown at the limit
C9_Witness ==
    /\ Returned("generate_detailed_tree")
    /\ last.max_depth = 0
    /\ \E p \in Shown(fs, last.show_hidden, 0) :
          /\ fs[p].kind = "dir" /\ fs[p].listable
          /\ \E q \in Shown(fs, last.show_hidden, None) : Len(q) = 2 /\ q[1] = p[1]
          /\ TimesListed(p) = 1

\* C9 as stated: iterdir() is never called on a directory whose children
\* are not emitted because of max_depth
C9_CutOffNeverListed ==
    ((Returned("generate_ascii_tree") \/ Returned("generate_detailed_tree"))
        /\ last.max_depth # None) =>
        \A p \in Range(last.out.listed) : Len(p) <= last.max_depth

(***************************************************************************)
(* C10: with show_hidden=False, generate_ascii_tree, generate_detailed_tree*)
(* and method3's generate_detailed_tree emit no line for an entry whose    *)
(* name begins with '.' nor for a descendant of one, and hidden entries    *)
(* add nothing to the directory count, the file count, the total size or   *)
(* the counts shown on a directory's line.                                 *)
(***************************************************************************)
\* number of non-hidden entries of directory p of the given kind
VisibleChildren(f, p, kind) ==
    Cardinality({q \in DOMAIN f : /\ Len(q) = Len(p) + 1
                                 /\ SubSeq(q, 1, Len(p)) = p
                                 /\ ~StartsWithDot(q[Len(q)])
                                 /\ f[q].kind = kind})

C10_HiddenContributeNothing ==
    ((Returned("generate_ascii_tree") \/ Returned("generate_detailed_tree")
        \/ Returned("method3.generate_detailed_tree")) /\ ~last.show_hidden) =>
        LET shown == Shown(fs, FALSE, last.max_depth)
            out == last.out
        IN  /\ \A l \in Range(EntryLines(out.lines)) : ~Hidden(l.path)
            /\ \A l \in Range(out.lines) : l.tag = "denied" => ~Hidden(l.path)
            /\ (IF last.fn = "generate_ascii_tree" THEN out.total_dirs ELSE out.dir_count)
                  = Cardinality({p \in shown : fs[p].kind = "dir"})
            /\ (IF last.fn = "generate_ascii_tree" THEN out.total_files ELSE out.file_count)
                  = Cardinality({p \in shown : fs[p].kind # "dir"})
            /\ (last.fn # "method3.generate_detailed_tree") =>
                  out.total_size = SumSizes(fs, StatFiles(fs, shown))
            /\ \A l \in Range(out.lines) :
                  (l.tag = "D" /\ "files" \in DOMAIN l.info) =>
                      /\ l.info.files = VisibleChildren(fs, l.path, "file")
                      /\ l.info.dirs = VisibleChildren(fs, l.path, "dir")

\* a visible directory that holds a hidden directory that holds a file
C10_Witness ==
    /\ Returned("generate_ascii_tree")
    /\ ~last.show_hidden
    /\ \E l \in Range(last.out.lines) :
          /\ l.tag = "D"
          /\ "files" \in DOMAIN l.info
          /\ \E q \in DOMAIN fs :
                /\ Len(q) = 3 /\ q[1] = l.path[1] /\ StartsWithDot(q[2])
                /\ fs[q].kind = "file" /\ Reachable(fs, q)
(***************************************************************************)
(* C12: in the output of generate_ascii_tree, generate_detailed_tree and   *)
(* directory_to_dict (of the generator and of method4), at every level all *)
(* directories precede all non-directory entries among the siblings, and   *)
(* within the directory group and within the file group the lower-cased    *)
(* names are in non-decreasing order.                                      *)
(***************************************************************************)
\* s is a sequence of [name, dir]: directories first, each group in
\* non-decreasing order of the lower-cased name
SiblingsOrdered(s) ==
    \A i, j \in 1..Len(s) :
        i < j => /\ (s[j].dir => s[i].dir)
                 /\ (s[i].dir = s[j].dir) =>
                        ~StrLess(Lower(Chars(s[j].name)), Lower(Chars(s[i].name)))

\* the entry lines of the entries of directory q, in the order of the text
SiblingLines(lines, q) ==
    SelectSeq(EntryLines(lines),
              LAMBDA l : Len(l.path) = Len(q) + 1 /\ SubSeq(l.path, 1, Len(q)) = q)

LineSiblings(lines, q) ==
    LET sl == SiblingLines(lines, q)
    IN  [i \in 1..Len(sl) |-> [name |-> sl[i].name, dir |-> is_dir(fs, sl[i].path)]]

\* the named children of a node, in the order of its 'children' list
NodeSiblings(node) ==
    LET named == SelectSeq(node.children, LAMBDA ch : "name" \in DOMAIN ch)
    IN  [i \in 1..Len(named) |-> [name |-> named[i].name,
                                   dir |-> named[i].type = "directory"]]

C12_DirsFirstThenCaseInsensitive ==
    /\ (Returned("generate_ascii_tree") \/ Returned("generate_detailed_tree")) =>
          \A q \in DOMAIN fs : SiblingsOrdered(LineSiblings(last.out.lines, q))
    /\ (last.fn \in {"directory_to_dict", "method4.directory_to_dict"}) =>
          \A x \in DictNodes(last.out) :
              "children" \in DOMAIN x.node => SiblingsOrdered(NodeSiblings(x.node))

\* a directory, then the files "a" and "B": in code-point order "B" (66)
\* comes before "a" (97)
C12_Witness ==
    /\ Returned("generate_ascii_tree")
    /\ Len(last.out.lines) = 3
    /\ last.out.lines[1].tag = "D"
    /\ last.out.lines[2].tag = "F" /\ last.out.lines[2].name = "a"
    /\ last.out.lines[3].tag = "F" /\ last.out.lines[3].name = "B"
(***************************************************************************)
(* C13: for an unchanged tree and identical parameters, a walk (method1    *)
(* walk_directory, generate_ascii_tree, generate_detailed_tree,            *)
(* directory_to_dict) produces the same entries in the same order whatever *)
(* the order in which iterdir() lists the entries, also when two siblings  *)
(* of the same kind have names that differ only in letter case.            *)
(***************************************************************************)
C13_SameOutputForEveryListingOrder ==
    /\ Returned("method1.generate_directory_tree") =>
          \A ord \in ListingOrders :
              last.out.lines = method1_generate_directory_tree(fs, ord, last.max_depth).lines
    /\ Returned("generate_ascii_tree") =>
          \A ord \in ListingOrders :
              last.out.lines
                  = generate_ascii_tree(fs, ord, last.show_hidden, last.max_depth).lines
    /\ Returned("generate_detailed_tree") =>
          \A ord \in ListingOrders :
              last.out.lines
                  = generate_detailed_tree(fs, ord, last.show_hidden, last.max_depth).lines
    /\ (last.fn = "directory_to_dict") =>
          \A ord \in ListingOrders :
              last.out = directory_to_dict(fs, ord, <<>>, last.max_depth, 0)
(***************************************************************************)
(* C14: in the text of method1's generate_directory_tree every entry line  *)
(* is a prefix, a connector and the name; the connector is the corner      *)
(* exactly when the entry is the last sibling in its directory and the     *)
(* branch otherwise; the prefix is, for each ancestor below the root from  *)
(* outermost to innermost, four spaces if that ancestor was the last       *)
(* sibling at its level and the bar with three spaces otherwise.           *)
(***************************************************************************)
\* no entry of the same directory follows p in the order of the paths
LastSibling(f, p) ==
    ~\E q \in DOMAIN f :
        /\ Len(q) = Len(p)
        /\ SubSeq(q, 1, Len(q) - 1) = SubSeq(p, 1, Len(p) - 1)
        /\ StrLess(Chars(p[Len(p)]), Chars(q[Len(q)]))

C14_ConnectorAndPrefix ==
    Returned("method1.generate_directory_tree") =>
        \A l \in Range(EntryLines(last.out.lines)) :
            /\ l.name = l.path[Len(l.path)]
            /\ l.connector = (IF LastSibling(fs, l.path) THEN Ell ELSE Tee)
            /\ l.prefix = [k \in 1..(Len(l.path) - 1) |->
                              IF LastSibling(fs, SubSeq(l.path, 1, k)) THEN Blank ELSE Bar]

\* the only entry of a directory that is not the last of its own siblings
C14_Witness ==
    /\ Returned("method1.generate_directory_tree")
    /\ \E l \in Range(EntryLines(last.out.lines)) :
          l.prefix = <<Bar>> /\ l.connector = Ell
    /\ \E l \in Range(EntryLines(last.out.lines)) :
          l.prefix = <<>> /\ l.connector = Tee
(***************************************************************************)
(* C15: when a walker (method1 walk_directory, generate_ascii_tree,        *)
(* generate_detailed_tree, directory_to_dict) lists a directory D in order *)
(* to walk it and the listing raises PermissionError, it emits exactly one *)
(* permission-denied marker for D and no children of D, and every entry    *)
(* outside D's subtree is emitted exactly as it would be if D were an      *)
(* empty directory.  A denied directory whose contents are cut off by      *)
(* max_depth gets no marker: generate_ascii_tree and                       *)
(* generate_detailed_tree list it once, for the counts of its line, and    *)
(* show "?" there.                                                         *)
(***************************************************************************)
\* p is D or lies below D
Under(D, p) == Len(p) >= Len(D) /\ SubSeq(p, 1, Len(D)) = D

\* the tree f with D listable and empty
AsEmpty(f, D) == [Emptied(f, D) EXCEPT ![D].listable = TRUE]

\* the directories of the tree whose listing raises
Denied(f) == {p \in DOMAIN f : f[p].kind = "dir" /\ ~f[p].listable}

\* the denied directories a walk with these parameters enters and lists
WalkedDenied(f, show_hidden, max_depth) ==
    {D \in Denied(f) \cap Shown(f, show_hidden, None) :
        max_depth = None \/ Len(D) <= max_depth}

\* the denied directories directory_to_dict lists: its test is
\* current_depth >= max_depth, the root being at current_depth 0
WalkedDeniedDict(f, max_depth) ==
    {D \in Denied(f) \cap Shown(f, TRUE, None) : max_depth = None \/ Len(D) < max_depth}

\* the lines that do not belong to D or to what lies below it
LinesOutside(lines, D) ==
    SelectSeq(lines, LAMBDA l : ~("path" \in DOMAIN l /\ Under(D, l.path)))

MarkersFor(lines, D) ==
    Cardinality({i \in 1..Len(lines) : lines[i].tag = "denied" /\ lines[i].path = D})

\* the nodes of a directory_to_dict tree in document order, each with the
\* path it stands for (for the sentinel: the directory it marks)
RECURSIVE Flatten(_, _), FlattenSeq(_, _, _)
Flatten(node, p) ==
    <<[at |-> p, marker |-> FALSE,
       node |-> [k \in DOMAIN node \ {"children"} |-> node[k]]]>>
    \o (IF "children" \in DOMAIN node THEN FlattenSeq(node.children, p, 1) ELSE <<>>)

FlattenSeq(children, p, i) ==
    IF i > Len(children) THEN <<>>
    ELSE (IF "name" \in DOMAIN children[i]
          THEN Flatten(children[i], Append(p, children[i].name))
          ELSE <<[at |-> p, marker |-> TRUE, node |-> children[i]]>>)
         \o FlattenSeq(children, p, i + 1)

NodesOutside(root, D) == SelectSeq(Flatten(root, <<>>), LAMBDA x : ~Under(D, x.at))

\* the text that the same call returns for the tree g
SameCall(g, ord) ==
    CASE last.fn = "method1.generate_directory_tree"
            -> method1_generate_directory_tree(g, ord, last.max_depth)
      [] last.fn = "generate_ascii_tree"
            -> generate_ascii_tree(g, ord, last.show_hidden, last.max_depth)
      [] last.fn = "generate_detailed_tree"
            -> generate_detailed_tree(g, ord, last.show_hidden, last.max_depth)

TextWalker ==
    Returned("method1.generate_directory_tree") \/ Returned("generate_ascii_tree")
        \/ Returned("generate_detailed_tree")

ShowsHidden == IF last.fn = "method1.generate_directory_tree" THEN TRUE ELSE last.show_hidden

\* one marker for D, nothing below D, everything else as if D were empty
MarkedOnceText(D) ==
    /\ MarkersFor(last.out.lines, D) = 1
    /\ \A l \in Range(EntryLines(last.out.lines)) : Under(D, l.path) => l.path = D
    /\ \A ord \in ListingOrders :
          LinesOutside(last.out.lines, D)
              = LinesOutside(SameCall(AsEmpty(fs, D), ord).lines, D)

MarkedOnceDict(D) ==
    LET nodes == Flatten(last.out, <<>>)
    IN  /\ Cardinality({i \in 1..Len(nodes) : nodes[i].marker /\ nodes[i].at = D}) = 1
        /\ \A i \in 1..Len(nodes) : Under(D, nodes[i].at) => nodes[i].at = D
        /\ \A ord \in ListingOrders :
              NodesOutside(last.out, D)
                  = NodesOutside(directory_to_dict(AsEmpty(fs, D), ord, <<>>,
                                                   last.max_depth, 0), D)

C15_DeniedWithinLimitMarkedOnce ==
    /\ TextWalker =>
          /\ \A D \in WalkedDenied(fs, ShowsHidden, last.max_depth) : MarkedOnceText(D)
          /\ \A D \in (Denied(fs) \cap Shown(fs, ShowsHidden, last.max_depth))
                        \ WalkedDenied(fs, ShowsHidden, last.max_depth) :
                /\ MarkersFor(last.out.lines, D) = 0
                /\ (last.fn # "method1.generate_directory_tree") =>
                      /\ TimesListed(D) = 1
                      /\ \E l \in Range(last.out.lines) :
                            l.tag = "D" /\ l.path = D /\ l.info = [text |-> "?"]
    /\ (last.fn = "directory_to_dict") =>
          \A D \in WalkedDeniedDict(fs, last.max_depth) : MarkedOnceDict(D)

\* a denied directory between two other entries, walked without a limit
C15_Witness ==
    /\ Returned("generate_ascii_tree")
    /\ last.max_depth = None
    /\ \E D \in WalkedDenied(fs, last.show_hidden, None) :
          /\ MarkersFor(last.out.lines, D) = 1
          /\ Len(LinesOutside(last.out.lines, D)) = 2

\* C15 as stated: whenever the listing of D raises PermissionError, also
\* when generate_ascii_tree or generate_detailed_tree lists D for its counts
\* only, exactly one marker is emitted for D
C15_DeniedMarkedOnce ==
    /\ Returned("method1.generate_directory_tree") =>
          \A D \in WalkedDenied(fs, TRUE, last.max_depth) : MarkedOnceText(D)
    /\ (Returned("generate_ascii_tree") \/ Returned("generate_detailed_tree")) =>
          \A D \in Denied(fs) \cap Range(last.out.listed) : MarkedOnceText(D)
    /\ (last.fn = "directory_to_dict") =>
          \A D \in WalkedDeniedDict(fs, last.max_depth) : MarkedOnceDict(D)
(***************************************************************************)
(* C16: in every walker (method1 walk_directory, method2 build_tree,       *)
(* method3 process_directory, generate_ascii_tree, generate_detailed_tree, *)
(* directory_to_dict) an access error on a single entry below the root     *)
(* (stat() or the listing raising, the entry having vanished) does not     *)
(* leave the walk as an exception: the walk returns a result, in which the *)
(* entry is marked inaccessible.                                           *)
(***************************************************************************)
\* the emitted entries on which stat() is called and raises
StatFailed(f, paths) == {p \in paths : f[p].kind = "broken"}

C16_AccessErrorsAreMarked ==
    /\ (last.fn \in {"method1.generate_directory_tree", "method2.create_rich_directory_tree",
                      "method3.generate_detailed_tree", "generate_ascii_tree",
                      "generate_detailed_tree"}) =>
          last.out.status = "ok"
    /\ (Returned("method2.create_rich_directory_tree")
            \/ Returned("method3.generate_detailed_tree")
            \/ Returned("generate_ascii_tree") \/ Returned("generate_detailed_tree")) =>
          \A l \in Range(last.out.lines) :
              (l.tag = "F" /\ l.path \in StatFailed(fs, DOMAIN fs)) =>
                  l.info = [text |-> "access denied"]
    /\ (last.fn = "directory_to_dict") =>
          \A x \in Range(Flatten(last.out, <<>>)) :
              (~x.marker /\ x.at \in StatFailed(fs, DOMAIN fs)) => "error" \in DOMAIN x.node
    /\ TextWalker =>
          \A D \in WalkedDenied(fs, ShowsHidden, last.max_depth) :
              MarkersFor(last.out.lines, D) = 1
(***************************************************************************)
(* C17: for every generator that writes a file (generate_directory_tree,   *)
(* generate_ascii_tree, generate_detailed_tree, save_tree_json,            *)
(* save_tree_xml), if the root path does not exist the call fails with a   *)
(* not-found error and no output file is written.                          *)
(***************************************************************************)
C17_MissingRootFails ==
    (last.fn \in {"generate_directory_tree", "generate_ascii_tree", "generate_detailed_tree",
                  "save_tree_json", "save_tree_xml"}
        /\ ~Exists(fs, <<>>)) =>
        /\ last.out.status = "FileNotFoundError"
        /\ "file" \notin DOMAIN last.out

(***************************************************************************)
(* C18.  Calls of the recursive function during one walk.                  *)
(***************************************************************************)
\* the paths on which the walker that has just returned called its
\* recursive function; directory_to_dict returns one directory node per call
CallsMade ==
    IF last.fn = "directory_to_dict"
    THEN LET dirs == SelectSeq(Flatten(last.out, <<>>),
                         LAMBDA x : ~x.marker /\ x.node.type = "directory")
         IN  [i \in 1..Len(dirs) |-> dirs[i].at]
    ELSE last.out.calls

WalkerReturned == TextWalker \/ last.fn = "directory_to_dict"

\* two calls were made on two path names of one directory
WalkedThroughLink ==
    \E i, j \in 1..Len(CallsMade) :
        i # j /\ Real(fs, CallsMade[i]) = Real(fs, CallsMade[j])

(***************************************************************************)
(* C18 (as amended).  On every finite tree without symbolic-link cycles    *)
(* whose root exists, whatever directories are denied and whatever files   *)
(* are unreadable, each walker (method1 walk_directory, build_tree,        *)
(* directory_to_dict) returns a result, and it calls its recursive         *)
(* function at most once per path name of a directory: a directory that    *)
(* is also reached through a symbolic link is walked once under each of    *)
(* its path names.                                                         *)
(***************************************************************************)
C18_OneCallPerPath ==
    last.fn \in {"method1.generate_directory_tree", "generate_ascii_tree",
                 "directory_to_dict"} =>
        /\ WalkerReturned
        /\ \A i \in 1..Len(CallsMade) : is_dir(fs, CallsMade[i])
        /\ \A i, j \in 1..Len(CallsMade) : i # j => CallsMade[i] # CallsMade[j]

\* a walk of a tree with a link, a denied directory or an unreadable entry
\* below the root, in which a directory was entered under two path names
C18_Witness ==
    /\ WalkerReturned
    /\ ~NoLink(fs)
    /\ WalkedThroughLink
    /\ \E p \in DOMAIN fs : ~StatOK(fs, p) \/ (is_dir(fs, p) /\ ~Listable(fs, p))

(***************************************************************************)
(* C18 (as stated).  On every finite tree without symbolic-link cycles     *)
(* whose root exists, each walker returns a result and makes at most one   *)
(* recursive call per directory.                                           *)
(***************************************************************************)
C18_OneCallPerDirectory ==
    last.fn \in {"method1.generate_directory_tree", "generate_ascii_tree",
                 "directory_to_dict"} =>
        /\ WalkerReturned
        /\ ~WalkedThroughLink

(***************************************************************************)
(* C19.  Serializing a tree with save_tree_json (of                        *)
(* directory_tree_generator.py or of method4) and parsing the file again   *)
(* gives a tree isomorphic to the one that was serialized: node by node    *)
(* the same keys with the same name, type, size and the other values, and  *)
(* the children in the same order.                                         *)
(***************************************************************************)
\* the parsed node b is the node a of the tree in memory
RECURSIVE Iso(_, _), IsoSeq(_, _, _)
Iso(a, b) ==
    /\ DOMAIN a = DOMAIN b
    /\ \A k \in DOMAIN a \ {"children", "path"} : a[k] = b[k]
    /\ "path" \in DOMAIN a => PathStr(a.path) = b.path
    /\ "children" \in DOMAIN a =>
          Len(a.children) = Len(b.children) /\ IsoSeq(a.children, b.children, 1)

IsoSeq(xs, ys, i) == i > Len(xs) \/ (Iso(xs[i], ys[i]) /\ IsoSeq(xs, ys, i + 1))

\* json.load of the file written, without the metadata of save_tree_json
Reparsed ==
    LET loaded == json_load(last.out.file.content)
    IN  [k \in DOMAIN loaded \ {"metadata"} |-> loaded[k]]

C19_JsonRoundTrip ==
    last.fn \in {"save_tree_json", "method4.save_tree_json"} => Iso(last.out.tree, Reparsed)

\* a tree with a directory of two children, one of them a file with a size,
\* was written and parsed
C19_Witness ==
    /\ last.fn \in {"save_tree_json", "method4.save_tree_json"}
    /\ \E x \in DictNodes(Reparsed) :
          /\ "children" \in DOMAIN x.node
          /\ Len(x.node.children) >= 2
          /\ \E i \in 1..Len(x.node.children) :
                "size" \in DOMAIN x.node.children[i] /\ x.node.children[i].size > 0

(***************************************************************************)
(* C20.  Every node of the JSON tree (the root, and every element of every *)
(* children list, the entries for inaccessible files and the sentinels for *)
(* denied directories included) carries a name and an explicit type, which *)
(* is "file" or "directory".                                               *)
(***************************************************************************)
C20_EveryNodeNamedAndTyped ==
    last.fn \in {"save_tree_json", "method4.save_tree_json"} =>
        \A x \in DictNodes(Reparsed) :
            /\ "name" \in DOMAIN x.node
            /\ "type" \in DOMAIN x.node
            /\ x.node.type \in {"file", "directory"}

(***************************************************************************)
(* C11.  When generate_all_formats is called with include_hidden=False, no *)
(* output it produces (basic, ascii, detailed, json, xml, rich) contains   *)
(* an entry whose name begins with '.'.                                    *)
(***************************************************************************)
\* the elements below an XML element
RECURSIVE XmlElements(_)
XmlElements(el) ==
    UNION {{el.children[i]} \cup XmlElements(el.children[i]) : i \in 1..Len(el.children)}

\* the names of the entries that the output of one format holds
EntryNames(r) ==
    IF r.out.status # "ok" THEN {}
    ELSE CASE r.fmt = "json" ->
                 {x.node.name : x \in {y \in NodesAt(json_load(r.out.file.content), 0) :
                                           "name" \in DOMAIN y.node}}
           [] r.fmt = "xml" ->
                 {x.attrs.name : x \in {y \in XmlElements(r.out.file.content) :
                                            "name" \in DOMAIN y.attrs}}
           [] OTHER ->
                 {l.name : l \in {k \in Range(r.out.lines) : k.tag \in {"entry", "D", "F"}}}

C11_NoHiddenEntryInAnyFormat ==
    (last.fn = "generate_all_formats" /\ ~last.include_hidden) =>
        \A i \in 1..Len(last.out.results) :
            \A n \in EntryNames(last.out.results[i]) : ~StartsWithDot(n)

(***************************************************************************)
(* C21.  The XML written by save_tree_xml (of directory_tree_generator.py  *)
(* or of method4) mirrors the tree of directory_to_dict: for every node,   *)
(* each element of its children list yields exactly one child element of   *)
(* the node's XML element, in the same order, whose tag is the child's     *)
(* type, "directory" or "file", and whose attributes carry the child's     *)
(* scalar fields.                                                          *)
(***************************************************************************)
\* the XML element el is the node of the dict, child by child
RECURSIVE Mirrors(_, _), MirrorsSeq(_, _, _)
Mirrors(node, el) ==
    /\ \A k \in DOMAIN node \ {"type", "children"} :
          k \in DOMAIN el.attrs /\ el.attrs[k] = AttrText(k, node[k])
    /\ Len(el.children) = (IF "children" \in DOMAIN node THEN Len(node.children) ELSE 0)
    /\ "children" \in DOMAIN node => MirrorsSeq(node.children, el.children, 1)

MirrorsSeq(children, elems, i) ==
    \/ i > Len(children)
    \/ /\ "type" \in DOMAIN children[i]
       /\ children[i].type \in {"directory", "file"}
       /\ elems[i].tag = children[i].type
       /\ Mirrors(children[i], elems[i])
       /\ MirrorsSeq(children, elems, i + 1)

C21_XmlMirrorsDict ==
    (last.fn \in {"save_tree_xml", "method4.save_tree_xml"} /\ last.out.status = "ok") =>
        Mirrors(last.out.tree, last.out.file.content)

(***************************************************************************)
(* C25.  method4's save_tree_xml completes and writes an XML document for  *)
(* every tree, also one with a directory whose listing is denied: the      *)
(* denied directory is rendered as a directory element without child       *)
(* entries and the conversion does not raise.                              *)
(***************************************************************************)
\* the element that the XML document holds for the path p, if any
RECURSIVE ElementAt(_, _)
ElementAt(el, p) ==
    IF p = <<>> THEN {el}
    ELSE UNION {ElementAt(el.children[i], Tail(p)) :
                   i \in {j \in 1..Len(el.children) :
                             "name" \in DOMAIN el.children[j].attrs
                                /\ el.children[j].attrs.name = Head(p)}}

C25_Method4XmlCompletes ==
    last.fn = "method4.save_tree_xml" =>
        /\ last.out.status = "ok"
        /\ "file" \in DOMAIN last.out
        /\ \A D \in Denied(fs) :
              Reachable(fs, D) =>
                  \E el \in ElementAt(last.out.file.content, D) :
                      el.tag = "directory" /\ el.children = <<>>

(***************************************************************************)
(* C26.  In the document written by save_tree_xml of                       *)
(* directory_tree_generator.py the root element's max_depth attribute is   *)
(* the decimal form of the max_depth argument whenever one was given,      *)
(* max_depth = 0 included, and 'unlimited' only when max_depth is None.    *)
(***************************************************************************)
C26_MaxDepthAttribute ==
    last.fn = "save_tree_xml" =>
        last.out.file.content.attrs.max_depth
            = (IF last.max_depth = None THEN "unlimited" ELSE ToString(last.max_depth))

(***************************************************************************)
(* C22.  In the text of generate_ascii_tree, generate_detailed_tree and    *)
(* method3's generate_detailed_tree each entry's connector is the corner   *)
(* exactly when the entry is the last sibling in its directory and the     *)
(* branch otherwise, and the prefix of the entries of a directory is that  *)
(* of the directory extended by four spaces exactly when the directory is  *)
(* the last sibling at its level and by the bar and three spaces           *)
(* otherwise.                                                              *)
(***************************************************************************)
\* the line of p is the last of the lines of the entries of p's directory
LastShown(lines, p) ==
    LET sl == SiblingLines(lines, SubSeq(p, 1, Len(p) - 1))
    IN  sl[Len(sl)].path = p

DrawnText ==
    Returned("generate_ascii_tree") \/ Returned("generate_detailed_tree")
        \/ Returned("method3.generate_detailed_tree")

C22_ConnectorAndPrefix ==
    DrawnText =>
        \A l \in Range(EntryLines(last.out.lines)) :
            /\ l.connector = (IF LastShown(last.out.lines, l.path) THEN Ell ELSE Tee)
            /\ l.prefix = [k \in 1..(Len(l.path) - 1) |->
                              IF LastShown(last.out.lines, SubSeq(l.path, 1, k))
                              THEN Blank ELSE Bar]

(***************************************************************************)
(* C27.  In generate_ascii_tree and generate_detailed_tree (and method3's  *)
(* generate_detailed_tree), for every directory that is listable and not   *)
(* cut off by max_depth, the counts shown on its line equal the number of  *)
(* file lines and the number of directory lines emitted directly beneath   *)
(* it, whatever kinds of entries the directory holds.                      *)
(***************************************************************************)
CountsMatchBeneath(l) ==
    LET beneath == SiblingLines(last.out.lines, l.path)
    IN  /\ l.info.files = Len(SelectSeq(beneath, LAMBDA b : b.tag = "F"))
        /\ l.info.dirs = Len(SelectSeq(beneath, LAMBDA b : b.tag = "D"))

C27_CountsMatchLinesBeneath ==
    DrawnText =>
        \A l \in Range(EntryLines(last.out.lines)) :
            (/\ l.tag = "D"
             /\ Listable(fs, l.path)
             /\ (last.max_depth = None \/ DepthOf(l.path) < last.max_depth))
                => CountsMatchBeneath(l)

(***************************************************************************)
(* C23.  For every tree and every max_depth d the set of entries (paths    *)
(* below the root) in the tree returned by directory_to_dict(root, d)      *)
(* equals the set of entries listed by                                     *)
(* generate_detailed_tree(root, show_hidden=True, max_depth=d).            *)
(***************************************************************************)
\* the paths below the root that have a node in a directory_to_dict tree
DictEntries(root) ==
    {x.at : x \in {y \in Range(Flatten(root, <<>>)) : ~y.marker /\ y.at # <<>>}}

\* the paths that have an entry line in a text
TextEntries(lines) == {l.path : l \in Range(EntryLines(lines))}

C23_DictAndDetailedCutAlike ==
    /\ (Returned("generate_detailed_tree") /\ last.show_hidden) =>
          \A ord \in ListingOrders :
              TextEntries(last.out.lines)
                  = DictEntries(directory_to_dict(fs, ord, <<>>, last.max_depth, 0))
    /\ last.fn = "directory_to_dict" =>
          \A ord \in ListingOrders :
              DictEntries(last.out)
                  = TextEntries(generate_detailed_tree(fs, ord, TRUE, last.max_depth).lines)

(***************************************************************************)
(* C24.  In directory_to_dict (of method4, as of                           *)
(* directory_tree_generator.py), when stat() fails on one file of a        *)
(* directory, the children list of that directory still holds the nodes of *)
(* the other entries of the directory, those listed before it and those    *)
(* listed after it: the failure does not discard the siblings.             *)
(***************************************************************************)
\* the entries of directory D other than p
Siblings(f, D, p) ==
    {q \in DOMAIN f : Len(q) = Len(D) + 1 /\ SubSeq(q, 1, Len(D)) = D /\ q # p}

C24_StatFailureKeepsSiblings ==
    (last.fn \in {"method4.directory_to_dict", "directory_to_dict"}
        /\ last.max_depth = None) =>
        \A p \in StatFailed(fs, DOMAIN fs) :
            LET D == SubSeq(p, 1, Len(p) - 1)
            IN  (D = <<>> \/ Reachable(fs, D)) /\ Listable(fs, D) =>
                    \A q \in Siblings(fs, D, p) :
                        \E x \in Range(Flatten(last.out, <<>>)) : ~x.marker /\ x.at = q

(***************************************************************************)
(* C28.  generate_all_formats attempts each of the six formats once, in    *)
(* the order basic, ascii, detailed, json, xml, rich; an exception raised  *)
(* by one format's generator is recorded as that format's "ERROR: ..."     *)
(* result and does not prevent the later formats from being generated; the *)
(* returned list always has exactly six (format, result) pairs in that     *)
(* order.                                                                  *)
(***************************************************************************)
\* what the generator of a format returns when it is called on its own
Alone(fmt, ord, rich_available) ==
    CASE fmt = "basic" -> generate_directory_tree(fs, ord, last.max_depth)
      [] fmt = "ascii" -> generate_ascii_tree(fs, ord, last.include_hidden, last.max_depth)
      [] fmt = "detailed" ->
             generate_detailed_tree(fs, ord, last.include_hidden, last.max_depth)
      [] fmt = "json" -> save_tree_json(fs, ord, last.max_depth)
      [] fmt = "xml" -> save_tree_xml(fs, ord, last.max_depth)
      [] fmt = "rich" ->
             create_rich_directory_tree(fs, ord, last.max_depth, rich_available)

C28_SixResultsInOrder ==
    last.fn = "generate_all_formats" =>
        LET results == last.out.results
        IN  /\ last.out.status = "ok"
            /\ [i \in 1..Len(results) |-> results[i].fmt]
                   = <<"basic", "ascii", "detailed", "json", "xml", "rich">>
            /\ \A i \in 1..Len(results) :
                  /\ \E ord \in ListingOrders, r \in BOOLEAN :
                        results[i].out = Alone(results[i].fmt, ord, r)
                  /\ results[i].result =
                        (IF results[i].out.status = "ok" THEN results[i].out.file.name
                         ELSE "ERROR: " \o results[i].out.status)

\* the start path does not exist: the first three generators and the rich
\* one raise, the JSON and XML files are written all the same
C28_Witness ==
    /\ last.fn = "generate_all_formats"
    /\ ~Exists(fs, <<>>)
    /\ last.out.results[1].result = "ERROR: FileNotFoundError"
    /\ last.out.results[4].result = "tree_root_TS.json"
    /\ last.out.results[5].result = "tree_root_TS.xml"
    /\ last.out.results[6].result = "ERROR: FileNotFoundError"

(***************************************************************************)
(* C29.  A call to any generator (generate_directory_tree,                 *)
(* generate_ascii_tree, generate_detailed_tree, save_tree_json,            *)
(* save_tree_xml) leaves the set of entries under the walked root          *)
(* unchanged, so that every call of a sequence walks the same tree, also   *)
(* when the output file name is automatic and the root is the current      *)
(* directory.                                                              *)
(***************************************************************************)
C29_GeneratorsLeaveTreeUnchanged ==
    [][last'.fn \in {"generate_directory_tree", "generate_ascii_tree",
                     "generate_detailed_tree", "save_tree_json", "save_tree_xml"}
          => DOMAIN fs' = DOMAIN fs]_vars

(***************************************************************************)
(* C30.  In main, for every format and every -o value, when the generator  *)
(* returns after writing a non-empty file, the final verification checks   *)
(* the file that was written and reports success: '-o my_tree' saves       *)
(* my_tree.txt and is reported as saved, never as 'File was not created'.  *)
(***************************************************************************)
C30_VerificationChecksWrittenFile ==
    (last.fn = "main" /\ "written" \in DOMAIN last.out) =>
        /\ last.out.output_file = last.out.written
        /\ last.out.report = "SUCCESS"

====
